---------------------------- MODULE Spec2Model ----------------------------
(***************************************************************************)
(* A model of the Bayesian collaborative denoiser of Nanairo               *)
(* (source/NanairoCore/Denoiser/bayesian_collaborative_denoiser.cpp).      *)
(*                                                                         *)
(* Float is modelled by exact rationals <<num, den>> (den > 0, lowest      *)
(* terms); every non-finite Float (the result of a division by zero and    *)
(* whatever is computed from it) is the single value NaN == <<0, 0>>.      *)
(* A SpectraArray<kDimension> is a tuple of kDimension Floats, a pixel     *)
(* table the tuple of them in the order of the pixel index x + width * y.  *)
(***************************************************************************)
EXTENDS Integers, Sequences, FiniteSets, TLC

(***************************************************************************)
(* Float.  The arithmetic is given as functions, so that an operand is     *)
(* evaluated once, before the operation.                                   *)
(***************************************************************************)
Abs(a) == IF a < 0 THEN -a ELSE a

RECURSIVE Gcd(_, _)
Gcd(a, b) == IF b = 0 THEN a ELSE Gcd(b, a % b)

Float == Int \X Int

NaN == <<0, 0>>

IsNaN(r) == r[2] = 0

Norm[n \in Int, d \in Int] ==
  IF d = 0 THEN NaN
  ELSE LET g == Gcd(Abs(n), Abs(d))
       IN  IF d < 0 THEN <<(-n) \div g, (-d) \div g>> ELSE <<n \div g, d \div g>>

R(i) == <<i, 1>>

Zero == R(0)

RAdd[a \in Float, b \in Float] ==
  IF IsNaN(a) \/ IsNaN(b) THEN NaN
  ELSE Norm[a[1] * b[2] + b[1] * a[2], a[2] * b[2]]

RNeg[a \in Float] == IF IsNaN(a) THEN NaN ELSE <<-a[1], a[2]>>

RSub[a \in Float, b \in Float] == RAdd[a, RNeg[b]]

RMul[a \in Float, b \in Float] ==
  IF IsNaN(a) \/ IsNaN(b) THEN NaN ELSE Norm[a[1] * b[1], a[2] * b[2]]

\* zisc::invert(x): 1 / x
RInv[a \in Float] == IF IsNaN(a) THEN NaN ELSE Norm[a[2], a[1]]

RDiv[a \in Float, b \in Float] == RMul[a, RInv[b]]

\* a <= b and a < b as IEEE compares: false when an operand is NaN
RLeq[a \in Float, b \in Float] ==
  ~IsNaN(a) /\ ~IsNaN(b) /\ a[1] * b[2] <= b[1] * a[2]

RLt[a \in Float, b \in Float] ==
  ~IsNaN(a) /\ ~IsNaN(b) /\ a[1] * b[2] < b[1] * a[2]

Min(a, b) == IF a <= b THEN a ELSE b

Max(a, b) == IF a >= b THEN a ELSE b

(***************************************************************************)
(* Tuples and tables.  A tuple is built element by element; a table (a     *)
(* std::vector) of n entries is the tuple whose element index + 1 is the   *)
(* entry of index 0 <= index < n.                                          *)
(***************************************************************************)
RECURSIVE Tuple(_, _, _)
\* <<F(lo), ..., F(hi)>>
Tuple(F(_), lo, hi) ==
  IF hi < lo THEN <<>>
  ELSE IF lo = hi THEN <<F(lo)>>
  ELSE Tuple(F, lo, (lo + hi) \div 2) \o Tuple(F, ((lo + hi) \div 2) + 1, hi)

Table(F(_), n) == Tuple(F, 0, n - 1)

At(table, index) == table[index + 1]

Indexes(table) == 0..(Len(table) - 1)

\* F(v) with v evaluated once, before F, whatever the number of its uses in F
Bind(v, F(_)) == CHOOSE r \in {F(x) : x \in {v}} : TRUE

(***************************************************************************)
(* zisc::ArithArray<Float, n>: element-wise arithmetic on tuples           *)
(***************************************************************************)
\* the RGB instantiation denoiseMultiscale<3>
kDimension == 3

\* size of CovarianceFactors<kDimension>: the upper triangle
NumFactors == (kDimension * (kDimension + 1)) \div 2

Array == Seq(Float)

ZeroArray(n) == Tuple(LAMBDA i : Zero, 1, n)

ArrAdd[a \in Array, b \in Array] == Tuple(LAMBDA i : RAdd[a[i], b[i]], 1, Len(a))

ArrSub[a \in Array, b \in Array] == Tuple(LAMBDA i : RSub[a[i], b[i]], 1, Len(a))

ArrScale[k \in Float, a \in Array] == Tuple(LAMBDA i : RMul[k, a[i]], 1, Len(a))

RECURSIVE ArrSumRange(_, _, _, _)
\* F(lo) + ... + F(hi) of arrays of n elements (the sum is exact, so the
\* order of the additions does not show)
ArrSumRange(F(_), lo, hi, n) ==
  IF hi < lo THEN ZeroArray(n)
  ELSE IF lo = hi THEN F(lo)
  ELSE ArrAdd[ArrSumRange(F, lo, (lo + hi) \div 2, n),
              ArrSumRange(F, ((lo + hi) \div 2) + 1, hi, n)]

\* the sum of the entries of the table at the indexes idx[1], idx[2], ...
ArrSum(table, idx, n) == ArrSumRange(LAMBDA j : At(table, idx[j]), 1, Len(idx), n)

(***************************************************************************)
(* zisc::Matrix<Float, n, n> as a tuple of rows                            *)
(***************************************************************************)
\* offset of the pair (si_a, si_b), si_a <= si_b, in the loops
\* "for si_a .. for si_b = si_a .. ++offset" (1-based here)
FactorOffset(si_a, si_b) ==
  (si_a - 1) * kDimension - (((si_a - 1) * (si_a - 2)) \div 2) + (si_b - si_a) + 1

\* the pair <<si_a, si_b>> of an offset
FactorPair[offset \in 1..NumFactors] ==
  CHOOSE ab \in (1..kDimension) \X (1..kDimension) :
    ab[1] <= ab[2] /\ FactorOffset(ab[1], ab[2]) = offset

Matrices == Seq(Array)

Matrix(F(_, _), n) == Tuple(LAMBDA i : Tuple(LAMBDA j : F(i, j), 1, n), 1, n)

toMatrix[factors \in Array] ==
  Matrix(LAMBDA si_a, si_b :
           factors[FactorOffset(Min(si_a, si_b), Max(si_a, si_b))],
         kDimension)

MatAdd[A \in Matrices, B \in Matrices] == Matrix(LAMBDA i, j : RAdd[A[i][j], B[i][j]], Len(A))

MatSub[A \in Matrices, B \in Matrices] == Matrix(LAMBDA i, j : RSub[A[i][j], B[i][j]], Len(A))

RECURSIVE Dot(_, _, _)
Dot(a, b, i) == IF i = 0 THEN Zero ELSE RAdd[Dot(a, b, i - 1), RMul[a[i], b[i]]]

\* matrix * vector
MatVec[A \in Matrices, v \in Array] == Tuple(LAMBDA i : Dot(A[i], v, Len(v)), 1, Len(A))

Minor[A \in Matrices, i \in Nat, j \in Nat] ==
  Matrix(LAMBDA r, c : A[IF r < i THEN r ELSE r + 1][IF c < j THEN c ELSE c + 1],
         Len(A) - 1)

\* the determinant, by expansion along the first row
Det[A \in Matrices] ==
  IF Len(A) = 0 THEN R(1)
  ELSE Dot(Tuple(LAMBDA j : IF j % 2 = 1 THEN A[1][j] ELSE RNeg[A[1][j]], 1, Len(A)),
           Tuple(LAMBDA j : Det[Minor[A, 1, j]], 1, Len(A)),
           Len(A))

\* Matrix::inverseMatrix(): cofactors over the determinant; a singular
\* matrix gives the division by zero, so no finite entry
inverseMatrix[A \in Matrices] ==
  Bind(RInv[Det[A]],
       LAMBDA k :
         Matrix(LAMBDA i, j :
                  IF IsNaN(k) THEN NaN
                  ELSE IF (i + j) % 2 = 0 THEN RMul[k, Det[Minor[A, j, i]]]
                  ELSE RNeg[RMul[k, Det[Minor[A, j, i]]]],
                Len(A)))

(***************************************************************************)
(* RenderingTile: the pixel range [begin, end) walked row by row           *)
(***************************************************************************)
RenderingTile(begin, end) == [begin |-> begin, end |-> end]

TileWidth(t) == t.end[1] - t.begin[1]

TileHeight(t) == t.end[2] - t.begin[2]

numOfPixels(t) ==
  IF TileWidth(t) <= 0 \/ TileHeight(t) <= 0 THEN 0
  ELSE TileWidth(t) * TileHeight(t)

\* the pixel current() returns after p calls of next()
TilePixel(t, p) ==
  <<t.begin[1] + (p % TileWidth(t)), t.begin[2] + (p \div TileWidth(t))>>

\* RenderingTile::getIndex: the position of a pixel of the tile in that walk
getIndex(t, pixel) ==
  (pixel[1] - t.begin[1]) + TileWidth(t) * (pixel[2] - t.begin[2])

InTile(t, pixel) ==
  /\ t.begin[1] <= pixel[1] /\ pixel[1] < t.end[1]
  /\ t.begin[2] <= pixel[2] /\ pixel[2] < t.end[2]

(***************************************************************************)
(* Patch, search window, chunk and tile geometry.  pr and sr stand for     *)
(* the fields patch_radius_ and search_radius_.                            *)
(***************************************************************************)
\* a chunk of two tiles a side
getChunkSizeOfTwoTiles(sr) == 2 * sr

getChunkSize(sr) == 3 * sr

getNumOfPatchPixels(pr) == (2 * pr + 1) * (2 * pr + 1)

getNumOfSearchWindowPixels(sr) == (2 * sr + 1) * (2 * sr + 1)

getPatchDimension(pr) == kDimension * getNumOfPatchPixels(pr)

\* the number of chunks per axis; evaluated only for a chunk size > 0
\* the chunks counted over the whole resolution, the border of
\* patch_radius_ pixels included
getChunkResolutionOfImage(pr, sr, resolution) ==
  LET chunk_size == 3 * sr
  IN  <<(resolution[1] \div chunk_size) + (IF (resolution[1] % chunk_size) # 0 THEN 1 ELSE 0),
        (resolution[2] \div chunk_size) + (IF (resolution[2] % chunk_size) # 0 THEN 1 ELSE 0)>>

getChunkResolution(pr, sr, resolution) ==
  LET w == resolution[1] - 2 * pr
      h == resolution[2] - 2 * pr
      chunk_size == getChunkSize(sr)
  IN  <<(w \div chunk_size) + (IF (w % chunk_size) # 0 THEN 1 ELSE 0),
        (h \div chunk_size) + (IF (h % chunk_size) # 0 THEN 1 ELSE 0)>>

\* getChunkTileOrder(): the nine tile positions of a chunk, row by row
getChunkTileOrder == Tuple(LAMBDA k : <<(k - 1) % 3, (k - 1) \div 3>>, 1, 9)

makePatch(pr, center_pixel) ==
  RenderingTile(<<center_pixel[1] - pr, center_pixel[2] - pr>>,
                <<center_pixel[1] + pr + 1, center_pixel[2] + pr + 1>>)

\* the search window clamped to the image, not to the image inset by the
\* patch radius
makeSearchWindowOfImage(pr, sr, resolution, center_pixel) ==
  RenderingTile(
    <<Max(sr, center_pixel[1]) - sr, Max(sr, center_pixel[2]) - sr>>,
    <<Min(resolution[1], center_pixel[1] + sr + 1),
      Min(resolution[2], center_pixel[2] + sr + 1)>>)

makeSearchWindow(pr, sr, resolution, center_pixel) ==
  RenderingTile(
    <<Max(pr + sr, center_pixel[1]) - sr, Max(pr + sr, center_pixel[2]) - sr>>,
    <<Min(resolution[1] - pr, center_pixel[1] + sr + 1),
      Min(resolution[2] - pr, center_pixel[2] + sr + 1)>>)

\* the chunk tiles laid from the corner of the image, not from the corner
\* of the image inset by the patch radius
makeChunkTileOfImage(pr, sr, resolution, chunk_position, tile_position) ==
  LET chunk_size == 3 * sr
      bx == chunk_size * chunk_position[1] + sr * tile_position[1]
      by == chunk_size * chunk_position[2] + sr * tile_position[2]
  IN  RenderingTile(
        <<Min(bx, resolution[1] - pr), Min(by, resolution[2] - pr)>>,
        <<Min(bx + sr, resolution[1] - pr), Min(by + sr, resolution[2] - pr)>>)

makeChunkTile(pr, sr, resolution, chunk_position, tile_position) ==
  LET chunk_size == getChunkSize(sr)
      bx == pr + chunk_size * chunk_position[1] + sr * tile_position[1]
      by == pr + chunk_size * chunk_position[2] + sr * tile_position[2]
  IN  RenderingTile(
        <<Min(bx, resolution[1] - pr), Min(by, resolution[2] - pr)>>,
        <<Min(bx + sr, resolution[1] - pr), Min(by + sr, resolution[2] - pr)>>)

\* chunk_number -> chunk_position as in denoiseChunk
ChunkPosition(chunk_resolution, chunk_number) ==
  <<chunk_number % chunk_resolution[1], chunk_number \div chunk_resolution[1]>>

PixelIndex(resolution, pixel) == pixel[1] + resolution[1] * pixel[2]

\* neighbor_pixel + patch_offset - patch_radius_
OffsetPixel(pr, pixel, patch_offset) ==
  <<(pixel[1] + patch_offset[1]) - pr, (pixel[2] + patch_offset[2]) - pr>>

\* patch_number -> patch_offset
PatchOffset(pr, patch_number) ==
  <<patch_number % (2 * pr + 1), patch_number \div (2 * pr + 1)>>

(***************************************************************************)
(* Similarity engine                                                       *)
(***************************************************************************)
RECURSIVE calcHistogramDistanceByLhs(_, _, _)
\* the loop with the distance of a channel relative to lhs alone
calcHistogramDistanceByLhs(histogram_lhs, histogram_rhs, si) ==
  IF si = 0 THEN <<Zero, 0>>
  ELSE LET prev == calcHistogramDistanceByLhs(histogram_lhs, histogram_rhs, si - 1)
           lhs == histogram_lhs[si]
           rhs == histogram_rhs[si]
           diff == RSub[lhs, rhs]
       IN  IF RLt[R(1), RAdd[lhs, lhs]]
           THEN <<RAdd[prev[1], RDiv[RMul[diff, diff], RAdd[lhs, lhs]]],
                  prev[2] + 1>>
           ELSE prev

RECURSIVE calcHistogramDistanceOfNonZero(_, _, _)
\* the loop of calcHistogramDistance with the test 0 < lhs + rhs
calcHistogramDistanceOfNonZero(histogram_lhs, histogram_rhs, si) ==
  IF si = 0 THEN <<Zero, 0>>
  ELSE LET prev == calcHistogramDistanceOfNonZero(histogram_lhs, histogram_rhs, si - 1)
           lhs == histogram_lhs[si]
           rhs == histogram_rhs[si]
           diff == RSub[lhs, rhs]
       IN  IF RLt[Zero, RAdd[lhs, rhs]]
           THEN <<RAdd[prev[1], RDiv[RMul[diff, diff], RAdd[lhs, rhs]]],
                  prev[2] + 1>>
           ELSE prev

RECURSIVE calcHistogramDistanceTo(_, _, _)
\* the loop of calcHistogramDistance over the channels 1..si:
\* <<distance_sum, number of increments of *num_of_non_both0>>
calcHistogramDistanceTo(histogram_lhs, histogram_rhs, si) ==
  IF si = 0 THEN <<Zero, 0>>
  ELSE LET prev == calcHistogramDistanceTo(histogram_lhs, histogram_rhs, si - 1)
           lhs == histogram_lhs[si]
           rhs == histogram_rhs[si]
           diff == RSub[lhs, rhs]
       IN  IF RLt[R(1), RAdd[lhs, rhs]]
           THEN <<RAdd[prev[1], RDiv[RMul[diff, diff], RAdd[lhs, rhs]]],
                  prev[2] + 1>>
           ELSE prev

calcHistogramDistance[histogram_lhs \in Array, histogram_rhs \in Array] ==
  calcHistogramDistanceTo(histogram_lhs, histogram_rhs, kDimension)

RECURSIVE DistanceSumRange(_, _, _)
\* F(lo) + ... + F(hi) of pairs <<distance, count>>
DistanceSumRange(F(_), lo, hi) ==
  IF hi < lo THEN <<Zero, 0>>
  ELSE IF lo = hi THEN F(lo)
  ELSE LET mid == (lo + hi) \div 2
           l == DistanceSumRange(F, lo, mid)
           r == DistanceSumRange(F, mid + 1, hi)
       IN  <<RAdd[l[1], r[1]], l[2] + r[2]>>

\* the two loops of calcHistogramPatchDistance, flattened: step k is bin
\* k \div n and patch pixel k % n, n == getNumOfPatchPixels;
\* <<histogram_distance, num_of_non_both0>> before the assertion
PatchDistanceSum(pr, parameters, center_pixel_lhs, center_pixel_rhs) ==
  LET resolution == parameters.resolution_
      patch_lhs == makePatch(pr, center_pixel_lhs)
      patch_rhs == makePatch(pr, center_pixel_rhs)
      d(k) ==
        LET b == k \div getNumOfPatchPixels(pr)
            p == k % getNumOfPatchPixels(pr)
            histogram_offset == b * resolution[1] * resolution[2]
            index_lhs == PixelIndex(resolution, TilePixel(patch_lhs, p))
            index_rhs == PixelIndex(resolution, TilePixel(patch_rhs, p))
        IN  calcHistogramDistance[
              At(parameters.histogram_table_, histogram_offset + index_lhs),
              At(parameters.histogram_table_, histogram_offset + index_rhs)]
  IN  DistanceSumRange(d, 0, parameters.histogram_bins_ * getNumOfPatchPixels(pr) - 1)

\* the value returned when the assertion 0 < num_of_non_both0 does not stop
\* the program: the quotient, 0 / 0 with no valid bin
calcHistogramPatchDistance(pr, parameters, center_pixel_lhs, center_pixel_rhs) ==
  Bind(PatchDistanceSum(pr, parameters, center_pixel_lhs, center_pixel_rhs),
  LAMBDA s : RDiv[s[1], R(s[2])])

\* the distance selectSimilarPatches compares with the threshold
NeighborDistance(pr, parameters, main_pixel, neighbor_pixel) ==
  IF neighbor_pixel # main_pixel
  THEN calcHistogramPatchDistance(pr, parameters, main_pixel, neighbor_pixel)
  ELSE Zero

\* the SimilarPatchMask as the set of its set bits
\* the selection with d < histogram_distance_threshold_ for d <= ...
selectCloserPatches(pr, sr, threshold, parameters, main_pixel) ==
  Bind(makeSearchWindow(pr, sr, parameters.resolution_, main_pixel),
  LAMBDA search_window :
    {getIndex(search_window, neighbor_pixel) :
       neighbor_pixel \in
         {q \in {TilePixel(search_window, p) : p \in 0..(numOfPixels(search_window) - 1)} :
            RLt[NeighborDistance(pr, parameters, main_pixel, q), threshold]}})

selectSimilarPatches(pr, sr, threshold, parameters, main_pixel) ==
  Bind(makeSearchWindow(pr, sr, parameters.resolution_, main_pixel),
  LAMBDA search_window :
    {getIndex(search_window, neighbor_pixel) :
       neighbor_pixel \in
         {q \in {TilePixel(search_window, p) : p \in 0..(numOfPixels(search_window) - 1)} :
            RLeq[NeighborDistance(pr, parameters, main_pixel, q), threshold]}})

(***************************************************************************)
(* Estimators over the similar patches                                     *)
(***************************************************************************)
RECURSIVE Select(_, _, _)
\* the numbers lo..hi that satisfy P, in order
Select(P(_), lo, hi) ==
  IF hi < lo THEN <<>>
  ELSE IF lo = hi THEN (IF P(lo) THEN <<lo>> ELSE <<>>)
  ELSE LET mid == (lo + hi) \div 2
       IN  Select(P, lo, mid) \o Select(P, mid + 1, hi)

\* the indexes src_pixel[0] + resolution[0] * src_pixel[1] of the loop over
\* the search window, for the neighbors whose mask bit is set, in its order
SimilarIndexes(pr, resolution, search_window, patch_offset, similar_mask) ==
  Bind(Select(LAMBDA p : getIndex(search_window, TilePixel(search_window, p))
                           \in similar_mask,
              0, numOfPixels(search_window) - 1),
  LAMBDA sel :
    Tuple(LAMBDA j : PixelIndex(resolution,
                       OffsetPixel(pr, TilePixel(search_window, sel[j]), patch_offset)),
          1, Len(sel)))

calcEmpiricalMean(pr, resolution, search_window, patch_offset, similar_mask, table, kN) ==
  Bind(SimilarIndexes(pr, resolution, search_window, patch_offset, similar_mask),
  LAMBDA idx :
    ArrScale[RInv[R(Cardinality(similar_mask))], ArrSum(table, idx, kN)])

\* the factors (x - mean)[si_a] * (x - mean)[si_b], si_a <= si_b
CovarianceTerm(x, value_mean) ==
  Bind(ArrSub[x, value_mean],
  LAMBDA diff :
    Tuple(LAMBDA offset : RMul[diff[FactorPair[offset][1]],
                               diff[FactorPair[offset][2]]],
          1, NumFactors))

calcEmpiricalCovarianceMatrix(pr, resolution, search_window, patch_offset, similar_mask, value_table, value_mean) ==
  Bind(SimilarIndexes(pr, resolution, search_window, patch_offset, similar_mask),
  LAMBDA idx :
    ArrScale[RInv[R(Cardinality(similar_mask) - 1)],
             ArrSumRange(LAMBDA j : CovarianceTerm(At(value_table, idx[j]), value_mean),
                         1, Len(idx), NumFactors)])

\* the staging table after the call
calcStagingDenoisedValue(pr, resolution, search_window, patch_offset, similar_mask, expected_mean, covariance_mean, expected_covariance, value_table, staging_value_table) ==
  Bind(inverseMatrix[expected_covariance],
  LAMBDA inv_expected_covariance :
  Bind(SimilarIndexes(pr, resolution, search_window, patch_offset, similar_mask),
  LAMBDA idx :
    Table(LAMBDA index :
            IF index \in {idx[j] : j \in 1..Len(idx)}
            THEN ArrSub[At(value_table, index),
                        MatVec[covariance_mean,
                               MatVec[inv_expected_covariance,
                                      ArrSub[At(value_table, index), expected_mean]]]]
            ELSE At(staging_value_table, index),
          Len(staging_value_table))))

(***************************************************************************)
(* PixelMarker.  marker_table_ is the table of the words, each the set of  *)
(* its set bits; beyond holds, in the same way, the words of the memory    *)
(* that follows the table, which an index past the table addresses.        *)
(***************************************************************************)
kMarkerRepBits == 6

MarkerWordBits == 2 ^ kMarkerRepBits

\* the bits of the word marker_index among the bits of indexes
WordBits(indexes, marker_index) ==
  {i % MarkerWordBits : i \in {g \in indexes : g \div MarkerWordBits = marker_index}}

\* the constructor; garbage is what the memory after the table holds
PixelMarker(resolution, garbage) ==
  LET num_of_marks == (resolution[1] * resolution[2]) \div MarkerWordBits
      last == (resolution[1] * resolution[2] - 1) \div MarkerWordBits
  IN  [marker_table_ |-> Table(LAMBDA w : {}, num_of_marks),
       beyond |-> Table(LAMBDA w : WordBits(garbage, num_of_marks + w),
                        (last + 1) - num_of_marks)]

clear(pixel_marker) ==
  [marker_table_ |-> Table(LAMBDA w : {}, Len(pixel_marker.marker_table_)),
   beyond |-> pixel_marker.beyond]

\* marker_index of the index is no word of marker_table_
PastMarkerTable(pixel_marker, index) ==
  Len(pixel_marker.marker_table_) <= index \div MarkerWordBits

isMarked(pixel_marker, index) ==
  LET marker_index == index \div MarkerWordBits
      i == index % MarkerWordBits
  IN  IF PastMarkerTable(pixel_marker, index)
      THEN i \in At(pixel_marker.beyond, marker_index - Len(pixel_marker.marker_table_))
      ELSE i \in At(pixel_marker.marker_table_, marker_index)

\* mark(index) for every index of indexes
MarkAll(pixel_marker, indexes) ==
  LET num_of_marks == Len(pixel_marker.marker_table_)
  IN  [marker_table_ |->
         Table(LAMBDA w : At(pixel_marker.marker_table_, w) \cup WordBits(indexes, w),
               num_of_marks),
       beyond |->
         Table(LAMBDA w : At(pixel_marker.beyond, w)
                            \cup WordBits(indexes, num_of_marks + w),
               Len(pixel_marker.beyond))]

mark(pixel_marker, index) == MarkAll(pixel_marker, {index})

(***************************************************************************)
(* The two estimators of denoisePixels.  st holds what they change:        *)
(* denoised_value_table_, staging_value_table, estimates_counter,          *)
(* pixel_marker, and written, the indexes of the tables they accessed.     *)
(***************************************************************************)
\* the fallback that estimates the main pixel only, by its own sample value
denoiseOnlyMainPixel(pr, sr, main_pixel, similar_mask, parameters, st) ==
  [st EXCEPT
     !.written = @ \cup {PixelIndex(parameters.resolution_, main_pixel)},
     !.denoised_value_table_ =
        Table(LAMBDA index :
                IF index = PixelIndex(parameters.resolution_, main_pixel)
                THEN ArrAdd[At(st.denoised_value_table_, index),
                            At(parameters.sample_value_table_, index)]
                ELSE At(st.denoised_value_table_, index),
              Len(st.denoised_value_table_)),
     !.estimates_counter =
        Table(LAMBDA index :
                At(st.estimates_counter, index)
                  + (IF index = PixelIndex(parameters.resolution_, main_pixel) THEN 1 ELSE 0),
              Len(st.estimates_counter))]

denoiseOnlyMainPatch(pr, sr, main_pixel, similar_mask, parameters, st) ==
  LET dst(patch_number) ==
        PixelIndex(parameters.resolution_,
                   OffsetPixel(pr, main_pixel, PatchOffset(pr, patch_number)))
      numbers == 0..(getNumOfPatchPixels(pr) - 1)
  IN  Bind(makeSearchWindow(pr, sr, parameters.resolution_, main_pixel),
      LAMBDA search_window :
      Bind({dst(n) : n \in numbers},
      LAMBDA targets :
        [written |-> st.written \cup targets,
         staging_value_table |-> st.staging_value_table,
         denoised_value_table_ |->
           Table(LAMBDA index :
                   IF index \in targets
                   THEN ArrAdd[At(st.denoised_value_table_, index),
                               calcEmpiricalMean(pr, parameters.resolution_,
                                 search_window,
                                 PatchOffset(pr, CHOOSE n \in numbers : dst(n) = index),
                                 similar_mask, parameters.sample_value_table_,
                                 kDimension)]
                   ELSE At(st.denoised_value_table_, index),
                 Len(st.denoised_value_table_)),
         estimates_counter |->
           Table(LAMBDA index : At(st.estimates_counter, index)
                                  + (IF index \in targets THEN 1 ELSE 0),
                 Len(st.estimates_counter)),
         pixel_marker |-> st.pixel_marker]))

\* Step1 and Step2 of an iteration of denoiseSelectedPatches: the staging
\* table after them
SelectedPatchStaging(pr, resolution, search_window, patch_offset, similar_mask, parameters, staging_value_table) ==
  Bind(toMatrix[calcEmpiricalMean(pr, resolution, search_window, patch_offset,
         similar_mask, parameters.covariance_factor_table_, NumFactors)],
  LAMBDA covariance_mean :
  \* Step1
  Bind(calcEmpiricalMean(pr, resolution, search_window, patch_offset,
         similar_mask, parameters.sample_value_table_, kDimension),
  LAMBDA expected_mean1 :
  Bind(toMatrix[calcEmpiricalCovarianceMatrix(pr, resolution, search_window,
         patch_offset, similar_mask, parameters.sample_value_table_, expected_mean1)],
  LAMBDA empirical1 :
  Bind(calcStagingDenoisedValue(pr, resolution, search_window, patch_offset,
         similar_mask, expected_mean1, covariance_mean,
         MatAdd[covariance_mean, MatSub[empirical1, covariance_mean]],
         parameters.sample_value_table_, staging_value_table),
  LAMBDA staging1 :
  \* Step2
  Bind(calcEmpiricalMean(pr, resolution, search_window, patch_offset,
         similar_mask, staging1, kDimension),
  LAMBDA expected_mean2 :
  Bind(toMatrix[calcEmpiricalCovarianceMatrix(pr, resolution, search_window,
         patch_offset, similar_mask, staging1, expected_mean2)],
  LAMBDA expected_covariance2 :
    calcStagingDenoisedValue(pr, resolution, search_window, patch_offset,
      similar_mask, expected_mean2, covariance_mean,
      MatAdd[expected_covariance2, covariance_mean],
      parameters.sample_value_table_, staging1)))))))

\* the last loop of an iteration of denoiseSelectedPatches over the targets
SelectedPatchAccumulate(pr, patch_offset, targets, staging, st) ==
  [written |-> st.written \cup targets,
   staging_value_table |-> staging,
   denoised_value_table_ |->
     Table(LAMBDA index :
             IF index \in targets
             THEN ArrAdd[At(st.denoised_value_table_, index), At(staging, index)]
             ELSE At(st.denoised_value_table_, index),
           Len(st.denoised_value_table_)),
   estimates_counter |->
     Table(LAMBDA index : At(st.estimates_counter, index)
                            + (IF index \in targets THEN 1 ELSE 0),
           Len(st.estimates_counter)),
   pixel_marker |->
     IF patch_offset = <<pr, pr>> THEN MarkAll(st.pixel_marker, targets)
     ELSE st.pixel_marker]

\* one iteration of the loop over patch_number of denoiseSelectedPatches
SelectedPatchStep(pr, sr, main_pixel, similar_mask, parameters, st, patch_number) ==
  Bind(makeSearchWindow(pr, sr, parameters.resolution_, main_pixel),
  LAMBDA search_window :
  Bind(SimilarIndexes(pr, parameters.resolution_, search_window,
                      PatchOffset(pr, patch_number), similar_mask),
  LAMBDA idx :
  Bind(SelectedPatchStaging(pr, parameters.resolution_, search_window,
         PatchOffset(pr, patch_number), similar_mask, parameters,
         st.staging_value_table),
  LAMBDA staging :
    SelectedPatchAccumulate(pr, PatchOffset(pr, patch_number),
                            {idx[j] : j \in 1..Len(idx)}, staging, st))))

RECURSIVE SelectedPatchLoop(_, _, _, _, _, _, _)
\* the iterations patch_number = 0 .. n - 1
SelectedPatchLoop(pr, sr, main_pixel, similar_mask, parameters, st, n) ==
  IF n = 0 THEN st
  ELSE Bind(SelectedPatchLoop(pr, sr, main_pixel, similar_mask, parameters, st, n - 1),
       LAMBDA prev :
         SelectedPatchStep(pr, sr, main_pixel, similar_mask, parameters, prev, n - 1))

denoiseSelectedPatches(pr, sr, main_pixel, similar_mask, parameters, st) ==
  SelectedPatchLoop(pr, sr, main_pixel, similar_mask, parameters, st,
                    getNumOfPatchPixels(pr))

\* denoisePixels without the fallback
UsesSelectedPatchesOnly(pr, similar_mask) == FALSE

\* the fallback taken only below the dimension of a patch
UsesOnlyMainPatchBelow(pr, similar_mask) ==
  Cardinality(similar_mask) < getPatchDimension(pr)

\* the branch denoisePixels takes
UsesOnlyMainPatch(pr, similar_mask) ==
  Cardinality(similar_mask) <= getPatchDimension(pr)

denoisePixels(pr, sr, threshold, main_pixel, parameters, st) ==
  Bind(selectSimilarPatches(pr, sr, threshold, parameters, main_pixel),
  LAMBDA similar_mask :
    IF UsesOnlyMainPatch(pr, similar_mask)
    THEN denoiseOnlyMainPatch(pr, sr, main_pixel, similar_mask, parameters, st)
    ELSE denoiseSelectedPatches(pr, sr, main_pixel, similar_mask, parameters, st))

RECURSIVE denoise_chunk(_, _, _, _, _, _, _)
\* the loop of the lambda denoise_chunk over the first n pixels of chunk_tile
denoise_chunk(pr, sr, threshold, chunk_tile, parameters, st, n) ==
  IF n = 0 THEN st
  ELSE Bind(denoise_chunk(pr, sr, threshold, chunk_tile, parameters, st, n - 1),
       LAMBDA prev :
       Bind(TilePixel(chunk_tile, n - 1),
       LAMBDA current_pixel :
         IF ~isMarked(prev.pixel_marker,
                      PixelIndex(parameters.resolution_, current_pixel))
         THEN denoisePixels(pr, sr, threshold, current_pixel, parameters, prev)
         ELSE prev))

(***************************************************************************)
(* System and SampleStatistics.  A scene describes the image the renderer  *)
(* accumulated: resolution W x H, cycle samples per pixel; the samples of  *)
(* the pixels of odd fall into histogram bin 1 (when there is one), those  *)
(* of the others into bin 0; vals names the sample values; noise is added  *)
(* to every sum of squares; garbage is what the memory after the marker    *)
(* table holds when the PixelMarker is constructed.                        *)
(***************************************************************************)
\* threadManager().numOfThreads()
NumThreads == 2

\* System::calcThreadRange: the part of 0 .. n - 1 of a thread, n split
\* evenly and the rest given to the last thread
calcThreadRange(n, thread_id) ==
  LET size == n \div NumThreads
  IN  <<size * thread_id,
        IF thread_id + 1 = NumThreads THEN n ELSE size * (thread_id + 1)>>

InRange(range, index) == range[1] <= index /\ index < range[2]

imageResolution(scene) == <<scene.W, scene.H>>

\* the expected value of the samples of a pixel
SceneValue(scene, pixel_index) ==
  LET x == pixel_index % scene.W
      y == pixel_index \div scene.W
  IN  IF scene.vals = "flat" THEN <<Norm[1, 2], Norm[1, 2], Norm[1, 2]>>
      ELSE <<R(x), R(y), R(x * y)>>

\* statistics.sampleTable()[pixel_index]: the sum of the samples
sampleTable(scene, pixel_index) ==
  ArrScale[R(scene.cycle), SceneValue(scene, pixel_index)]

\* statistics.sampleSquaredTable()[pixel_index]
sampleSquaredTable(scene, pixel_index) ==
  LET v == SceneValue(scene, pixel_index)
  IN  Tuple(LAMBDA si : RAdd[RMul[R(scene.cycle), RMul[v[si], v[si]]], R(scene.noise)],
            1, kDimension)

\* the entry of statistics.covarianceFactorTable() of the pair si_a < si_b
covarianceFactorTable(scene, pixel_index, si_a, si_b) ==
  LET v == SceneValue(scene, pixel_index)
  IN  RMul[R(scene.cycle), RMul[v[si_a], v[si_b]]]

\* statistics.histogramTable()[src_index], src_index = bins * pixel + b
histogramTable(scene, histogram_bins, src_index) ==
  LET pixel_index == src_index \div histogram_bins
      b == src_index % histogram_bins
      bin == IF pixel_index \in scene.odd THEN 1 % histogram_bins ELSE 0
  IN  Tuple(LAMBDA si : IF b = bin THEN R(scene.cycle) ELSE Zero, 1, kDimension)

(***************************************************************************)
(* Parameters<kDimension>                                                  *)
(***************************************************************************)
\* a table after resize(n) of an empty vector
Resized(n, kN) == Table(LAMBDA i : ZeroArray(kN), n)

\* Parameters(system): the tables are empty
NewParameters ==
  [resolution_ |-> <<0, 0>>, num_of_samples_ |-> 0, histogram_bins_ |-> 0,
   sample_value_table_ |-> <<>>, histogram_table_ |-> <<>>,
   covariance_factor_table_ |-> <<>>, denoised_value_table_ |-> <<>>]

\* the Parameters with the fields and the tables resized to a resolution
ResizedParameters(resolution, num_of_samples, histogram_bins) ==
  LET n == resolution[1] * resolution[2]
  IN  [resolution_ |-> resolution,
       num_of_samples_ |-> num_of_samples,
       histogram_bins_ |-> histogram_bins,
       sample_value_table_ |-> Resized(n, kDimension),
       histogram_table_ |-> Resized(histogram_bins * n, kDimension),
       covariance_factor_table_ |-> Resized(n, NumFactors),
       denoised_value_table_ |-> Resized(n, kDimension)]

\* init up to the parallel loop
initResize(scene, histogram_bins) ==
  ResizedParameters(imageResolution(scene), scene.cycle, histogram_bins)

\* init_parameters storing the sum of the samples, not scaled by k
init_parametersOfSums(parameters, scene, thread_id) ==
  [parameters EXCEPT
     !.sample_value_table_ =
        Table(LAMBDA pixel_index :
                IF InRange(calcThreadRange(Len(parameters.sample_value_table_), thread_id), pixel_index)
                THEN sampleTable(scene, pixel_index)
                ELSE At(parameters.sample_value_table_, pixel_index),
              Len(parameters.sample_value_table_))]

\* the lambda init_parameters of init, run by one thread
init_parameters(parameters, scene, thread_id) ==
  LET n == parameters.resolution_[1] * parameters.resolution_[2]
      range == calcThreadRange(n, thread_id)
      k == RInv[R(parameters.num_of_samples_)]
      k1 == RInv[R(parameters.num_of_samples_ - 1)]
      factor(pixel_index, si_a, si_b) ==
        RMul[RMul[k, k1],
          RSub[IF si_a = si_b THEN sampleSquaredTable(scene, pixel_index)[si_a]
               ELSE covarianceFactorTable(scene, pixel_index, si_a, si_b),
               RMul[k, RMul[sampleTable(scene, pixel_index)[si_a],
                            sampleTable(scene, pixel_index)[si_b]]]]]
  IN  [parameters EXCEPT
         !.sample_value_table_ =
            Table(LAMBDA pixel_index :
                    IF InRange(range, pixel_index)
                    THEN ArrScale[k, sampleTable(scene, pixel_index)]
                    ELSE At(parameters.sample_value_table_, pixel_index),
                  n),
         !.covariance_factor_table_ =
            Table(LAMBDA pixel_index :
                    IF InRange(range, pixel_index)
                    THEN Tuple(LAMBDA offset :
                                 factor(pixel_index, FactorPair[offset][1],
                                        FactorPair[offset][2]),
                               1, NumFactors)
                    ELSE At(parameters.covariance_factor_table_, pixel_index),
                  n),
         !.histogram_table_ =
            Table(LAMBDA dst_index :
                    IF InRange(range, dst_index % n)
                    THEN histogramTable(scene, parameters.histogram_bins_,
                           parameters.histogram_bins_ * (dst_index % n)
                             + (dst_index \div n))
                    ELSE At(parameters.histogram_table_, dst_index),
                  parameters.histogram_bins_ * n)]

\* the low resolution table after downscaleAverage over range
downscaleAverage(high_res, high_res_table, low_res, low_res_table, range) ==
  LET high_index(low_index, offset_x, offset_y) ==
        Min(2 * (low_index % low_res[1]) + offset_x, high_res[1] - 1)
          + high_res[1] * Min(2 * (low_index \div low_res[1]) + offset_y,
                              high_res[2] - 1)
      sum(low_index) ==
        ArrSum(high_res_table,
               <<high_index(low_index, 0, 0), high_index(low_index, 1, 0),
                 high_index(low_index, 0, 1), high_index(low_index, 1, 1)>>,
               Len(At(low_res_table, low_index)))
  IN  Table(LAMBDA low_index :
              IF InRange(range, low_index)
              THEN ArrScale[Norm[1, 4], sum(low_index)]
              ELSE At(low_res_table, low_index),
            Len(low_res_table))

\* downscaleOf up to the parallel loop
downscaleResize(high_res_p) ==
  ResizedParameters(<<high_res_p.resolution_[1] \div 2,
                      high_res_p.resolution_[2] \div 2>>,
                    high_res_p.num_of_samples_, high_res_p.histogram_bins_)

RECURSIVE DownscaleBins(_, _, _, _, _)
\* the loop over the bins b = 0 .. bins - 1 of downscale_parameters
DownscaleBins(high_res_p, resolution, table, range, bins) ==
  IF bins = 0 THEN table
  ELSE LET offset == (bins - 1) * (resolution[1] * resolution[2])
       IN  downscaleAverage(high_res_p.resolution_, high_res_p.histogram_table_,
             resolution,
             DownscaleBins(high_res_p, resolution, table, range, bins - 1),
             <<offset + range[1], offset + range[2]>>)

\* the lambda downscale_parameters of downscaleOf, run by one thread
downscale_parameters(parameters, high_res_p, thread_id) ==
  LET resolution == parameters.resolution_
      range == calcThreadRange(resolution[1] * resolution[2], thread_id)
  IN  [parameters EXCEPT
         !.sample_value_table_ =
            downscaleAverage(high_res_p.resolution_,
              high_res_p.sample_value_table_, resolution, @, range),
         !.histogram_table_ =
            DownscaleBins(high_res_p, resolution, @, range,
                          parameters.histogram_bins_),
         !.covariance_factor_table_ =
            downscaleAverage(high_res_p.resolution_,
              high_res_p.covariance_factor_table_, resolution, @, range)]

(***************************************************************************)
(* The state of one call of denoise (denoiseMultiscale<kDimension>)        *)
(***************************************************************************)
VARIABLES
  self,                  \* the fields of the BayesianCollaborativeDenoiser
  scene,                 \* the System and the SampleStatistics read
  statistics,            \* statistics->denoisedSampleTable(), written at the end
  pc,                    \* the position in denoiseMultiscale
  workers,               \* the threads that finished the running parallel loop
  scale,                 \* the level downscaleOf builds
  multiscale_parameters, \* the Parameters of every scale
  staging_value_table,
  estimates_counter,
  pixel_marker,
  tile_number,
  job,                   \* chunk_number -> "queued" or "finished" in the tile step
  touched,               \* chunk_number -> the table indexes it accessed in the tile step
  histogram_lhs,         \* the arguments of the calls of calcHistogramDistance
  histogram_rhs,
  distance,              \* order of the arguments -> the distance returned
  num_of_non_both0,      \* order of the arguments -> the counter of the caller
  call,                  \* the object and the arguments of a member function called alone
  returned,              \* <<>>, or the one value the call returned
  chunk_loop             \* the job and the index p of its loop, of a pass run by one thread

histogram_vars == <<histogram_lhs, histogram_rhs, distance, num_of_non_both0>>

call_vars == <<call, returned, chunk_loop>>

vars == <<self, scene, statistics, pc, workers, scale, multiscale_parameters, staging_value_table, estimates_counter, pixel_marker, tile_number, job, touched, histogram_vars, call_vars>>

Threads == 0..(NumThreads - 1)

\* parameters = &multiscale_parameters[scale] of iteration 0 (1-based here)
ParametersScale == (self.num_of_scales_ - (0 + 1)) + 1

parameters == multiscale_parameters[ParametersScale]

chunk_resolution ==
  getChunkResolution(self.patch_radius_, self.search_radius_, parameters.resolution_)

Chunks == 0..(chunk_resolution[1] * chunk_resolution[2] - 1)

\* the chunk_tile of a job of the running tile step
ChunkTile(chunk_number) ==
  makeChunkTile(self.patch_radius_, self.search_radius_, parameters.resolution_,
                ChunkPosition(chunk_resolution, chunk_number),
                getChunkTileOrder[tile_number + 1])

\* the indexes of the pixels of the chunk_tile of a job
TileIndexes(chunk_number) ==
  {PixelIndex(parameters.resolution_, TilePixel(ChunkTile(chunk_number), p)) :
     p \in 0..(numOfPixels(ChunkTile(chunk_number)) - 1)}

JobQueued(chunk_number) ==
  /\ pc = "tiles"
  /\ chunk_number \in DOMAIN job
  /\ job[chunk_number] = "queued"

\* what the buffers hold, as the record the estimators work on
Buffers ==
  [written |-> {},
   denoised_value_table_ |-> parameters.denoised_value_table_,
   staging_value_table |-> staging_value_table,
   estimates_counter |-> estimates_counter,
   pixel_marker |-> pixel_marker]

\* the job of a chunk run on what the buffers hold
RunJob(chunk_number) ==
  denoise_chunk(self.patch_radius_, self.search_radius_,
                self.histogram_distance_threshold_, ChunkTile(chunk_number),
                parameters, Buffers, numOfPixels(ChunkTile(chunk_number)))

\* the indexes the other jobs of the tile step accessed
TouchedByOthers(chunk_number) ==
  UNION {touched[c] : c \in DOMAIN touched \ {chunk_number}}

\* the sets of indexes at which an unsynchronized update may be lost
LostChoices(raced) ==
  IF raced = {} THEN {{}} ELSE {{}, raced, {CHOOSE q \in raced : TRUE}}

(***************************************************************************)
(* The calls of denoise modelled                                           *)
(***************************************************************************)
Case(W, H, pr, sr, scales, threshold, odd, vals, noise, garbage) ==
  [self |-> [histogram_bins_ |-> 2,
             histogram_distance_threshold_ |-> threshold,
             patch_radius_ |-> pr,
             search_radius_ |-> sr,
             num_of_scales_ |-> scales],
   scene |-> [W |-> W, H |-> H, cycle |-> 2, odd |-> odd, vals |-> vals,
              noise |-> noise, garbage |-> garbage]]

\* the largest width and height of the images of SmallCases
MaxSide == 3

\* histogram_distance_threshold_: zero and a positive one
Thresholds == {Zero, R(1)}

\* the sets of pixels whose samples fell in the second histogram bin
OddPixels == {{}, {0}, {1, 3, 5, 7}}

\* patch radius 0, search radius 1, one scale, on every small image
SmallCases ==
  {Case(W, H, 0, 1, 1, t, odd, "generic", 0, {}) :
     W \in 1..MaxSide, H \in 1..MaxSide, t \in Thresholds, odd \in OddPixels}

\* a uniform image; patches of radius 1; two and three scales; search
\* radius 0; memory behind the marker table that is not zero; and an image
\* of two chunks whose patches, of radius 1, are averaged over the window;
\* and an image of which one sample a pixel was taken
SpecialCases ==
  {[Case(2, 2, 0, 1, 1, Zero, {}, "generic", 0, {}) EXCEPT !.scene.cycle = 1],
   Case(4, 3, 0, 1, 1, Zero, {}, "flat", 0, {}),
   Case(5, 4, 1, 1, 1, Zero, {}, "generic", 0, {}),
   Case(4, 4, 0, 1, 2, Zero, {}, "flat", 0, {}),
   Case(4, 4, 0, 1, 3, Zero, {}, "flat", 0, {}),
   Case(2, 2, 0, 0, 1, Zero, {}, "flat", 0, {}),
   Case(3, 3, 0, 1, 1, Zero, {4}, "generic", 0, {4}),
   Case(15, 7, 1, 3, 1, Zero, {}, "flat", 0, {})}

Cases == SmallCases \cup SpecialCases

Init ==
  /\ \E case \in Cases : self = case.self /\ scene = case.scene
  /\ statistics = <<>>
  /\ pc = "start"
  /\ workers = {}
  /\ scale = 0
  /\ multiscale_parameters = <<>>
  /\ staging_value_table = <<>>
  /\ estimates_counter = <<>>
  /\ pixel_marker = <<>>
  /\ tile_number = 0
  /\ job = <<>>
  /\ touched = <<>>
  /\ histogram_lhs = <<>>
  /\ histogram_rhs = <<>>
  /\ distance = <<>>
  /\ num_of_non_both0 = <<>>
  /\ call = <<>>
  /\ returned = <<>>
  /\ chunk_loop = <<>>

(***************************************************************************)
(* denoiseMultiscale                                                       *)
(***************************************************************************)
\* the call: the Parameters are constructed, init resizes the tables of
\* scale 0 and starts its parallel loop
Denoise ==
  /\ pc = "start"
  /\ multiscale_parameters' =
       Tuple(LAMBDA i : IF i = 1 THEN initResize(scene, self.histogram_bins_)
                        ELSE NewParameters,
             1, self.num_of_scales_)
  /\ statistics' = Table(LAMBDA i : "unwritten", scene.W * scene.H)
  /\ pc' = "init"
  /\ workers' = {}
  /\ UNCHANGED histogram_vars
  /\ UNCHANGED call_vars
  /\ UNCHANGED <<self, scene, scale, staging_value_table, estimates_counter, pixel_marker, tile_number, job, touched>>

InitWorker(thread_id) ==
  /\ pc = "init"
  /\ thread_id \notin workers
  /\ multiscale_parameters' =
       [multiscale_parameters EXCEPT ![1] = init_parameters(@, scene, thread_id)]
  /\ workers' = workers \cup {thread_id}
  /\ UNCHANGED histogram_vars
  /\ UNCHANGED call_vars
  /\ UNCHANGED <<self, scene, statistics, pc, scale, staging_value_table, estimates_counter, pixel_marker, tile_number, job, touched>>

\* after the last parallel loop of the pyramid: the staging table, the
\* counter and the PixelMarker are constructed
Allocate ==
  /\ staging_value_table' = Resized(scene.W * scene.H, kDimension)
  /\ estimates_counter' = Table(LAMBDA i : 0, scene.W * scene.H)
  /\ pixel_marker' = PixelMarker(imageResolution(scene), scene.garbage)
  /\ pc' = "clear"

\* the loop of init has ended: downscaleOf of scale 1 starts, if any
InitJoin ==
  /\ pc = "init"
  /\ workers = Threads
  /\ workers' = {}
  /\ IF 1 < self.num_of_scales_
     THEN /\ multiscale_parameters' =
               [multiscale_parameters EXCEPT ![2] = downscaleResize(multiscale_parameters[1])]
          /\ scale' = 1
          /\ pc' = "downscale"
          /\ UNCHANGED <<staging_value_table, estimates_counter, pixel_marker>>
     ELSE /\ Allocate
          /\ UNCHANGED <<multiscale_parameters, scale>>
  /\ UNCHANGED histogram_vars
  /\ UNCHANGED call_vars
  /\ UNCHANGED <<self, scene, statistics, tile_number, job, touched>>

DownscaleWorker(thread_id) ==
  /\ pc = "downscale"
  /\ thread_id \notin workers
  /\ multiscale_parameters' =
       [multiscale_parameters EXCEPT
          ![scale + 1] = downscale_parameters(@, multiscale_parameters[scale], thread_id)]
  /\ workers' = workers \cup {thread_id}
  /\ UNCHANGED histogram_vars
  /\ UNCHANGED call_vars
  /\ UNCHANGED <<self, scene, statistics, pc, scale, staging_value_table, estimates_counter, pixel_marker, tile_number, job, touched>>

DownscaleJoin ==
  /\ pc = "downscale"
  /\ workers = Threads
  /\ workers' = {}
  /\ IF scale + 1 < self.num_of_scales_
     THEN /\ multiscale_parameters' =
               [multiscale_parameters EXCEPT
                  ![scale + 2] = downscaleResize(multiscale_parameters[scale + 1])]
          /\ scale' = scale + 1
          /\ UNCHANGED <<pc, staging_value_table, estimates_counter, pixel_marker>>
     ELSE /\ Allocate
          /\ UNCHANGED <<multiscale_parameters, scale>>
  /\ UNCHANGED histogram_vars
  /\ UNCHANGED call_vars
  /\ UNCHANGED <<self, scene, statistics, tile_number, job, touched>>

\* iteration 0 up to the first denoiseChunk: the buffers are cleared and
\* the chunks counted
Clear ==
  /\ pc = "clear"
  /\ 0 < getChunkSize(self.search_radius_)
  /\ estimates_counter' = Table(LAMBDA i : 0, Len(estimates_counter))
  /\ pixel_marker' = clear(pixel_marker)
  /\ tile_number' = 0
  /\ job' = [c \in Chunks |-> "queued"]
  /\ touched' = [c \in Chunks |-> {}]
  /\ pc' = "tiles"
  /\ UNCHANGED histogram_vars
  /\ UNCHANGED call_vars
  /\ UNCHANGED <<self, scene, statistics, workers, scale, multiscale_parameters, staging_value_table>>

\* getChunkResolution divides by the chunk size 3 * search_radius_ = 0
ClearDivideByZero ==
  /\ pc = "clear"
  /\ getChunkSize(self.search_radius_) = 0
  /\ pc' = "fault"
  /\ UNCHANGED histogram_vars
  /\ UNCHANGED call_vars
  /\ UNCHANGED <<self, scene, statistics, workers, scale, multiscale_parameters, staging_value_table, estimates_counter, pixel_marker, tile_number, job, touched>>

(***************************************************************************)
(* denoiseChunk: one job (the lambda denoise_chunk) per chunk, all run by  *)
(* the parallel loop.                                                      *)
(***************************************************************************)
\* isMarked reads past the end of marker_table_: the read may fault
MarkerFault(chunk_number) ==
  /\ JobQueued(chunk_number)
  /\ \E index \in TileIndexes(chunk_number) : PastMarkerTable(pixel_marker, index)
  /\ pc' = "fault"
  /\ UNCHANGED histogram_vars
  /\ UNCHANGED call_vars
  /\ UNCHANGED <<self, scene, statistics, workers, scale, multiscale_parameters, staging_value_table, estimates_counter, pixel_marker, tile_number, job, touched>>

\* the job of a chunk.  Where another job of the tile step accessed an
\* index this job updates, the two updates are not ordered, and the
\* update of this job may be lost.
DenoiseChunkJob(chunk_number) ==
  /\ JobQueued(chunk_number)
  /\ \E st \in {RunJob(chunk_number)} :
         /\ \E lost \in LostChoices(st.written \cap TouchedByOthers(chunk_number)) :
              /\ multiscale_parameters' =
                   [multiscale_parameters EXCEPT
                      ![ParametersScale].denoised_value_table_ =
                         Table(LAMBDA i : IF i \in lost
                                          THEN At(parameters.denoised_value_table_, i)
                                          ELSE At(st.denoised_value_table_, i),
                               Len(st.denoised_value_table_))]
              /\ estimates_counter' =
                   Table(LAMBDA i : IF i \in lost THEN At(estimates_counter, i)
                                    ELSE At(st.estimates_counter, i),
                         Len(estimates_counter))
         /\ staging_value_table' = st.staging_value_table
         /\ pixel_marker' = st.pixel_marker
         /\ touched' = [touched EXCEPT ![chunk_number] = st.written]
  /\ job' = [job EXCEPT ![chunk_number] = "finished"]
  /\ UNCHANGED histogram_vars
  /\ UNCHANGED call_vars
  /\ UNCHANGED <<self, scene, statistics, pc, workers, scale, tile_number>>

\* a loop that waits for no job
NoBarrier == TRUE

\* the end of the parallel loop of denoiseChunk: every job has returned
AllJobsFinished == \A c \in DOMAIN job : job[c] = "finished"

\* the parallel loop of denoiseChunk has ended: the next tile, or aggregate
TileJoin ==
  /\ pc = "tiles"
  /\ AllJobsFinished
  /\ IF tile_number + 1 < Len(getChunkTileOrder)
     THEN /\ tile_number' = tile_number + 1
          /\ job' = [c \in DOMAIN job |-> "queued"]
          /\ touched' = [c \in DOMAIN touched |-> {}]
          /\ UNCHANGED pc
     ELSE /\ pc' = "aggregate"
          /\ UNCHANGED <<tile_number, job, touched>>
  /\ workers' = {}
  /\ UNCHANGED histogram_vars
  /\ UNCHANGED call_vars
  /\ UNCHANGED <<self, scene, statistics, scale, multiscale_parameters, staging_value_table, estimates_counter, pixel_marker>>

(***************************************************************************)
(* aggregate and aggregateFinal                                            *)
(***************************************************************************)
\* the index range of a thread over the pixels of parameters
ThreadRange(thread_id) ==
  calcThreadRange(parameters.resolution_[1] * parameters.resolution_[2], thread_id)

\* aggregate_values scaling the sample value of the pixel, not its
\* denoised value
AggregateWorkerOfSampleValues(thread_id) ==
  /\ pc = "aggregate"
  /\ thread_id \notin workers
  /\ multiscale_parameters' =
       [multiscale_parameters EXCEPT
          ![ParametersScale].sample_value_table_ =
             Table(LAMBDA pixel_index :
                     IF InRange(ThreadRange(thread_id), pixel_index)
                     THEN ArrScale[RInv[R(At(estimates_counter, pixel_index))],
                                   At(parameters.sample_value_table_, pixel_index)]
                     ELSE At(parameters.sample_value_table_, pixel_index),
                   Len(parameters.sample_value_table_))]
  /\ workers' = workers \cup {thread_id}
  /\ UNCHANGED histogram_vars
  /\ UNCHANGED call_vars
  /\ UNCHANGED <<self, scene, statistics, pc, scale, staging_value_table, estimates_counter, pixel_marker, tile_number, job, touched>>

\* the lambda aggregate_values of aggregate where the assertion does not
\* stop it
AggregateWorker(thread_id) ==
  /\ pc = "aggregate"
  /\ thread_id \notin workers
  /\ multiscale_parameters' =
       [multiscale_parameters EXCEPT
          ![ParametersScale].denoised_value_table_ =
             Table(LAMBDA pixel_index :
                     IF InRange(ThreadRange(thread_id), pixel_index)
                     THEN ArrScale[RInv[R(At(estimates_counter, pixel_index))],
                                   At(parameters.denoised_value_table_, pixel_index)]
                     ELSE At(parameters.denoised_value_table_, pixel_index),
                   Len(parameters.denoised_value_table_))]
  /\ workers' = workers \cup {thread_id}
  /\ UNCHANGED histogram_vars
  /\ UNCHANGED call_vars
  /\ UNCHANGED <<self, scene, statistics, pc, scale, staging_value_table, estimates_counter, pixel_marker, tile_number, job, touched>>

\* ZISC_ASSERT(0 < estimates_counter[pixel_index]) fails
AggregateAssert(thread_id) ==
  /\ pc = "aggregate"
  /\ thread_id \notin workers
  /\ \E pixel_index \in Indexes(parameters.denoised_value_table_) :
       /\ InRange(ThreadRange(thread_id), pixel_index)
       /\ ~(0 < At(estimates_counter, pixel_index))
  /\ pc' = "fault"
  /\ UNCHANGED histogram_vars
  /\ UNCHANGED call_vars
  /\ UNCHANGED <<self, scene, statistics, workers, scale, multiscale_parameters, staging_value_table, estimates_counter, pixel_marker, tile_number, job, touched>>

AggregateJoin ==
  /\ pc = "aggregate"
  /\ workers = Threads
  /\ workers' = {}
  /\ pc' = "aggregateFinal"
  /\ UNCHANGED histogram_vars
  /\ UNCHANGED call_vars
  /\ UNCHANGED <<self, scene, statistics, scale, multiscale_parameters, staging_value_table, estimates_counter, pixel_marker, tile_number, job, touched>>

\* dst_index of aggregateFinal for a pixel_index of parameters
FinalIndex(pixel_index) ==
  (pixel_index % parameters.resolution_[1])
    + imageResolution(scene)[1] * (pixel_index \div parameters.resolution_[1])

\* the lambda aggregate_values of aggregateFinal
FinalWorker(thread_id) ==
  /\ pc = "aggregateFinal"
  /\ thread_id \notin workers
  /\ LET mine == {pixel_index \in Indexes(parameters.denoised_value_table_) :
                    InRange(ThreadRange(thread_id), pixel_index)}
     IN  statistics' =
           Table(LAMBDA i :
                   IF \E pixel_index \in mine : FinalIndex(pixel_index) = i
                   THEN At(parameters.denoised_value_table_,
                           CHOOSE pixel_index \in mine : FinalIndex(pixel_index) = i)
                   ELSE At(statistics, i),
                 Len(statistics))
  /\ workers' = workers \cup {thread_id}
  /\ UNCHANGED histogram_vars
  /\ UNCHANGED call_vars
  /\ UNCHANGED <<self, scene, pc, scale, multiscale_parameters, staging_value_table, estimates_counter, pixel_marker, tile_number, job, touched>>

FinalJoin ==
  /\ pc = "aggregateFinal"
  /\ workers = Threads
  /\ pc' = "done"
  /\ UNCHANGED histogram_vars
  /\ UNCHANGED call_vars
  /\ UNCHANGED <<self, scene, statistics, workers, scale, multiscale_parameters, staging_value_table, estimates_counter, pixel_marker, tile_number, job, touched>>

Next ==
  \/ Denoise
  \/ \E thread_id \in Threads : InitWorker(thread_id)
  \/ InitJoin
  \/ \E thread_id \in Threads : DownscaleWorker(thread_id)
  \/ DownscaleJoin
  \/ Clear
  \/ ClearDivideByZero
  \/ \E chunk_number \in DOMAIN job : MarkerFault(chunk_number)
  \/ \E chunk_number \in DOMAIN job : DenoiseChunkJob(chunk_number)
  \/ TileJoin
  \/ \E thread_id \in Threads : AggregateWorker(thread_id)
  \/ \E thread_id \in Threads : AggregateAssert(thread_id)
  \/ AggregateJoin
  \/ \E thread_id \in Threads : FinalWorker(thread_id)
  \/ FinalJoin

Spec == Init /\ [][Next]_vars

(***************************************************************************)
(* The calls of calcHistogramDistance modelled: a pair of histogram        *)
(* entries, given to the function in both orders.                          *)
(***************************************************************************)
\* the largest count of a channel of a histogram entry
MaxCount == 2

HistogramEntries ==
  {<<R(a), R(b), R(c)>> : a \in 0..MaxCount, b \in 0..MaxCount, c \in 0..MaxCount}

Orders == {"lhs_rhs", "rhs_lhs"}

InitHist ==
  /\ histogram_lhs \in HistogramEntries
  /\ histogram_rhs \in HistogramEntries
  /\ distance = <<>>
  /\ num_of_non_both0 = [order \in Orders |-> 0]
  /\ call = <<>>
  /\ returned = <<>>
  /\ chunk_loop = <<>>
  /\ self = <<>>
  /\ scene = <<>>
  /\ statistics = <<>>
  /\ pc = "histogram"
  /\ workers = {}
  /\ scale = 0
  /\ multiscale_parameters = <<>>
  /\ staging_value_table = <<>>
  /\ estimates_counter = <<>>
  /\ pixel_marker = <<>>
  /\ tile_number = 0
  /\ job = <<>>
  /\ touched = <<>>

\* the call calcHistogramDistance(a, b, &num_of_non_both0) with the
\* arguments in an order
CalcHistogramDistance(order) ==
  /\ pc = "histogram"
  /\ order \notin DOMAIN distance
  /\ \E result \in {IF order = "lhs_rhs"
                    THEN calcHistogramDistance[histogram_lhs, histogram_rhs]
                    ELSE calcHistogramDistance[histogram_rhs, histogram_lhs]} :
       /\ distance' = [o \in DOMAIN distance \cup {order} |->
                         IF o = order THEN result[1] ELSE distance[o]]
       /\ num_of_non_both0' = [num_of_non_both0 EXCEPT ![order] = @ + result[2]]
  /\ UNCHANGED <<histogram_lhs, histogram_rhs>>
  /\ UNCHANGED call_vars
  /\ UNCHANGED <<self, scene, statistics, pc, workers, scale, multiscale_parameters, staging_value_table, estimates_counter, pixel_marker, tile_number, job, touched>>

NextHist == \E order \in Orders : CalcHistogramDistance(order)

SpecHist == InitHist /\ [][NextHist]_vars

(***************************************************************************)
(* The properties                                                          *)
(***************************************************************************)
\* the pixels of a RenderingTile
TilePixels(t) == {TilePixel(t, p) : p \in 0..(numOfPixels(t) - 1)}

\* C1: under a valid configuration (patch_radius_ <= search_radius_), the
\* jobs of two distinct chunks of a tile step access no common index of
\* the denoised value table, the estimates counter and the staging table.
C1_JobsTouchDisjointPixels ==
  (pc = "tiles" /\ self.patch_radius_ <= self.search_radius_) =>
    \A c1 \in DOMAIN touched : \A c2 \in DOMAIN touched \ {c1} :
      touched[c1] \cap touched[c2] = {}

\* C2: after the last tile step every pixel of the image processed has an
\* estimates counter >= 1, for every image of width and height
\* >= 2 * patch_radius_ + 1.
C2_EveryPixelEstimated ==
  (/\ pc = "aggregate"
   /\ scene.W >= 2 * self.patch_radius_ + 1
   /\ scene.H >= 2 * self.patch_radius_ + 1) =>
    \A index \in Indexes(parameters.denoised_value_table_) :
      At(estimates_counter, index) >= 1


\* the buffers after Clear, before the first tile step
ClearedBuffers ==
  [written |-> {},
   denoised_value_table_ |-> Resized(Len(parameters.denoised_value_table_), kDimension),
   staging_value_table |-> Resized(scene.W * scene.H, kDimension),
   estimates_counter |-> Table(LAMBDA i : 0, scene.W * scene.H),
   pixel_marker |-> clear(PixelMarker(imageResolution(scene), scene.garbage))]

RECURSIVE SequentialJobs(_)
\* the buffers after the first n jobs of the pass, the jobs of a tile step
\* run one after the other in the order of the chunk numbers
SequentialJobs(n) ==
  IF n = 0 THEN ClearedBuffers
  ELSE Bind(SequentialJobs(n - 1),
       LAMBDA prev :
       Bind(makeChunkTile(self.patch_radius_, self.search_radius_, parameters.resolution_,
                          ChunkPosition(chunk_resolution, (n - 1) % Cardinality(Chunks)),
                          getChunkTileOrder[((n - 1) \div Cardinality(Chunks)) + 1]),
       LAMBDA chunk_tile :
         denoise_chunk(self.patch_radius_, self.search_radius_,
                       self.histogram_distance_threshold_, chunk_tile, parameters,
                       prev, numOfPixels(chunk_tile))))

\* C3: whatever the order and the overlap of the jobs of a tile step, the
\* denoised values and the estimates counters at the end are those of
\* the jobs run one after the other.
C3_ResultOfAnySchedule ==
  pc = "done" =>
    \E sequential \in {SequentialJobs(Len(getChunkTileOrder) * Cardinality(Chunks))} :
      /\ estimates_counter = sequential.estimates_counter
      /\ parameters.denoised_value_table_ =
           Table(LAMBDA index :
                   ArrScale[RInv[R(At(sequential.estimates_counter, index))],
                            At(sequential.denoised_value_table_, index)],
                 Len(sequential.denoised_value_table_))

\* C4: the stages follow one another in the order init, downscaleOf of
\* every further scale, clear, the tile steps in their order, aggregate,
\* aggregateFinal; a stage starts when every thread or job of the stage
\* before has finished.
C4_StagesInOrderBehindBarriers ==
  [][/\ (pc' # pc /\ pc' # "fault") =>
          /\ <<pc, pc'>> \in {<<"start", "init">>, <<"init", "downscale">>,
                              <<"init", "clear">>, <<"downscale", "clear">>,
                              <<"clear", "tiles">>, <<"tiles", "aggregate">>,
                              <<"aggregate", "aggregateFinal">>,
                              <<"aggregateFinal", "done">>}
          /\ (pc \in {"init", "downscale", "aggregate", "aggregateFinal"}) =>
               workers = 0..(NumThreads - 1)
          /\ (pc = "init" /\ pc' = "clear") => self.num_of_scales_ = 1
          /\ (pc = "downscale") => scale + 1 = self.num_of_scales_
          /\ (pc = "tiles") =>
               /\ tile_number + 1 = Len(getChunkTileOrder)
               /\ \A c \in DOMAIN job : job[c] = "finished"
     /\ (scale' # scale) =>
          /\ scale' = scale + 1
          /\ pc' = "downscale"
          /\ workers = 0..(NumThreads - 1)
     /\ (tile_number' # tile_number) =>
          /\ pc = "tiles"
          /\ tile_number' = tile_number + 1
          /\ \A c \in DOMAIN job : job[c] = "finished"
     /\ (job' # job /\ pc' = pc /\ tile_number' = tile_number) => pc = "tiles"
    ]_vars

\* every stage of a call on an image of several chunks has run
C4_Witness == pc = "done" /\ Cardinality(DOMAIN job) > 1 /\ tile_number = 8

\* C5: for every num_of_scales_ >= 1 the pass runs on the parameters of
\* the resolution of the image, and aggregateFinal stores for every pixel
\* of the statistics the denoised value of that pixel.
C5_FinestScaleWrittenBack ==
  /\ (pc \in {"tiles", "aggregate", "aggregateFinal", "done"}) =>
        parameters.resolution_ = imageResolution(scene)
  /\ (pc = "done") =>
        \A index \in Indexes(statistics) :
          At(statistics, index) = At(parameters.denoised_value_table_, index)

\* C6: in a tile step, the search window of a main pixel of the tile of a
\* chunk shares no pixel with the search window of a main pixel of the
\* tile of another chunk.
C6_SearchWindowsDisjoint ==
  pc = "tiles" =>
    \A c1 \in DOMAIN job : \A c2 \in DOMAIN job \ {c1} :
      \A p1 \in TilePixels(ChunkTile(c1)) : \A p2 \in TilePixels(ChunkTile(c2)) :
        TilePixels(makeSearchWindow(self.patch_radius_, self.search_radius_, parameters.resolution_, p1))
          \cap TilePixels(makeSearchWindow(self.patch_radius_, self.search_radius_, parameters.resolution_, p2)) = {}

\* a tile step in which two chunks have main pixels
C6_Witness ==
  /\ pc = "tiles"
  /\ \E c1 \in DOMAIN job : \E c2 \in DOMAIN job \ {c1} :
       /\ job[c1] = "finished" /\ job[c2] = "finished"
       /\ TilePixels(ChunkTile(c1)) # {} /\ TilePixels(ChunkTile(c2)) # {}

\* C7: for every main pixel of a chunk tile and every threshold >= 0, the
\* mask of selectSimilarPatches has the bit of the main pixel set.
C7_MainPixelIsSimilar ==
  (pc = "tiles" /\ RLeq[Zero, self.histogram_distance_threshold_]) =>
    \A c \in DOMAIN job : \A main_pixel \in TilePixels(ChunkTile(c)) :
      getIndex(makeSearchWindow(self.patch_radius_, self.search_radius_, parameters.resolution_, main_pixel), main_pixel)
        \in selectSimilarPatches(self.patch_radius_, self.search_radius_, self.histogram_distance_threshold_, parameters, main_pixel)

\* a job has run on main pixels whose histograms differ from those of
\* neighbours, under the threshold zero
C7_Witness ==
  /\ pc = "tiles"
  /\ self.histogram_distance_threshold_ = Zero
  /\ scene.odd # {}
  /\ \E c \in DOMAIN job : job[c] = "finished" /\ TilePixels(ChunkTile(c)) # {}


\* C8: for a uniform input without noise and the threshold zero, the
\* denoised value written for every pixel is the value of the input.
C8_UniformInputIsKept ==
  (/\ pc = "done"
   /\ scene.vals = "flat" /\ scene.odd = {} /\ scene.noise = 0 /\ scene.garbage = {}
   /\ self.histogram_distance_threshold_ = Zero
   /\ self.num_of_scales_ = 1) =>
    \A index \in Indexes(statistics) :
      At(statistics, index) = At(parameters.sample_value_table_, index)

\* C9: where the sample values, the covariance factors or a histogram bin
\* of a scale hold one constant at every pixel, the table of the scale
\* downscaleOf builds from it, the same bin for a bin, holds that
\* constant at every pixel.
C9_DownscaleKeepsConstants ==
  (pc \in {"clear", "tiles", "aggregate", "aggregateFinal", "done"}) =>
    \A s \in 2..self.num_of_scales_ :
      \E high \in {multiscale_parameters[s - 1]} : \E low \in {multiscale_parameters[s]} :
      \E hn \in {high.resolution_[1] * high.resolution_[2]} :
      \E ln \in {low.resolution_[1] * low.resolution_[2]} :
        /\ (\A i \in 0..(hn - 1) : At(high.sample_value_table_, i) = At(high.sample_value_table_, 0)) =>
             (\A i \in 0..(ln - 1) : At(low.sample_value_table_, i) = At(high.sample_value_table_, 0))
        /\ (\A i \in 0..(hn - 1) : At(high.covariance_factor_table_, i) = At(high.covariance_factor_table_, 0)) =>
             (\A i \in 0..(ln - 1) : At(low.covariance_factor_table_, i) = At(high.covariance_factor_table_, 0))
        /\ \A b \in 0..(high.histogram_bins_ - 1) :
             (\A i \in 0..(hn - 1) : At(high.histogram_table_, b * hn + i) = At(high.histogram_table_, b * hn)) =>
               (\A i \in 0..(ln - 1) : At(low.histogram_table_, b * ln + i) = At(high.histogram_table_, b * hn))

\* C10: calcHistogramDistance(a, b) and calcHistogramDistance(b, a) return
\* the same distance and add the same number to the counter.
C10_HistogramDistanceSymmetric ==
  (DOMAIN distance = Orders) =>
    /\ distance["lhs_rhs"] = distance["rhs_lhs"]
    /\ num_of_non_both0["lhs_rhs"] = num_of_non_both0["rhs_lhs"]

\* both calls made on two entries of which one channel counts and another
\* does not
C10_Witness ==
  /\ DOMAIN distance = Orders
  /\ histogram_lhs # histogram_rhs
  /\ num_of_non_both0["lhs_rhs"] \in 1..(kDimension - 1)
  /\ distance["lhs_rhs"] # Zero


(***************************************************************************)
(* Member functions called alone, on an object and arguments drawn from    *)
(* small sets.                                                             *)
(***************************************************************************)
\* the denoiser and the histogram calls at rest
NoDenoise ==
  /\ self = <<>>
  /\ scene = <<>>
  /\ statistics = <<>>
  /\ workers = {}
  /\ scale = 0
  /\ multiscale_parameters = <<>>
  /\ staging_value_table = <<>>
  /\ estimates_counter = <<>>
  /\ pixel_marker = <<>>
  /\ tile_number = 0
  /\ job = <<>>
  /\ touched = <<>>
  /\ histogram_lhs = <<>>
  /\ histogram_rhs = <<>>
  /\ distance = <<>>
  /\ num_of_non_both0 = <<>>

\* the largest width and height of the resolution given to getChunkResolution
MaxResolution == 32

\* the largest search_radius_ of the denoiser getChunkResolution is called on
MaxSearchRadius == 4

InitChunkResolution ==
  /\ call \in {[resolution |-> <<W, H>>, patch_radius_ |-> pr, search_radius_ |-> sr] :
                 W \in (MaxResolution - 3)..MaxResolution,
                 H \in (MaxResolution - 3)..MaxResolution,
                 pr \in 0..MaxSearchRadius, sr \in 1..MaxSearchRadius}
  /\ call.patch_radius_ <= call.search_radius_
  /\ returned = <<>>
  /\ chunk_loop = <<>>
  /\ pc = "getChunkResolution"
  /\ NoDenoise

CallGetChunkResolution ==
  /\ pc = "getChunkResolution"
  /\ returned = <<>>
  /\ returned' = <<getChunkResolution(call.patch_radius_, call.search_radius_, call.resolution)>>
  /\ UNCHANGED <<call, chunk_loop, histogram_vars>>
  /\ UNCHANGED <<self, scene, statistics, pc, workers, scale, multiscale_parameters, staging_value_table, estimates_counter, pixel_marker, tile_number, job, touched>>

SpecChunkResolution == InitChunkResolution /\ [][CallGetChunkResolution]_vars

\* C11, as the code has it: getChunkResolution counts the chunks of side
\* 3 * search_radius_ over the resolution less the border of patch_radius_
\* pixels on either side, ceil((n - 2 * patch_radius_) / chunk size) an
\* axis; for 32x32 and search_radius_ 4 that is (3, 3) for patch_radius_
\* 0..3 and (2, 2) for patch_radius_ 4.
C11_ChunkResolutionOfInset ==
  (returned # <<>>) =>
    /\ \A axis \in 1..2 :
         /\ returned[1][axis] * 3 * call.search_radius_ >= call.resolution[axis] - 2 * call.patch_radius_
         /\ (returned[1][axis] - 1) * 3 * call.search_radius_ < call.resolution[axis] - 2 * call.patch_radius_
    /\ (call.resolution = <<32, 32>> /\ call.search_radius_ = 4) =>
         returned[1] = IF call.patch_radius_ <= 3 THEN <<3, 3>> ELSE <<2, 2>>

\* getChunkResolution has returned for 32x32, search_radius_ 4 and
\* patch_radius_ 4
C11_Witness ==
  /\ returned # <<>>
  /\ call.resolution = <<32, 32>>
  /\ call.search_radius_ = 4
  /\ call.patch_radius_ = 4

\* C11, as stated: for 32x32 and search_radius_ 4 getChunkResolution
\* returns (3, 3) for every patch_radius_ in 0..search_radius_.
C11_ThreeByThreeForEveryPatchRadius ==
  (returned # <<>> /\ call.resolution = <<32, 32>> /\ call.search_radius_ = 4) =>
    returned[1] = <<3, 3>>


\* C12: for a constant colour (1/2, 1/2, 1/2) without variance,
\* patch_radius_ 1 and search_radius_ 3, denoise writes (1/2, 1/2, 1/2) at
\* every pixel off the border of patch_radius_ pixels and counts an
\* estimate at every pixel; no value computed on the way is undefined.
C12_ConstantColorIsKept ==
  (/\ pc = "done"
   /\ scene.vals = "flat" /\ scene.odd = {} /\ scene.noise = 0 /\ scene.garbage = {}
   /\ self.patch_radius_ = 1 /\ self.search_radius_ = 3 /\ self.num_of_scales_ = 1) =>
    /\ \A index \in Indexes(estimates_counter) : At(estimates_counter, index) > 0
    /\ \A x \in self.patch_radius_..(scene.W - self.patch_radius_ - 1) :
       \A y \in self.patch_radius_..(scene.H - self.patch_radius_ - 1) :
         /\ At(statistics, PixelIndex(imageResolution(scene), <<x, y>>)) =
              <<Norm[1, 2], Norm[1, 2], Norm[1, 2]>>
         /\ \A si \in 1..kDimension :
              ~IsNaN(At(statistics, PixelIndex(imageResolution(scene), <<x, y>>))[si])


\* C13: every pixel of scale 0 lies in the index range of exactly one
\* thread of init; once that thread has run, and from then on, its sample
\* value is the sum of its samples divided by the number of samples in
\* every channel, before that it is as resize left it; the matrix toMatrix
\* makes of its covariance factors is symmetric.
C13_InitOfEveryPixelOnce ==
  (pc \notin {"start", "histogram", "getChunkResolution"}) =>
    \A pixel_index \in 0..(scene.W * scene.H - 1) :
      /\ Cardinality({thread_id \in Threads :
                        InRange(calcThreadRange(scene.W * scene.H, thread_id), pixel_index)}) = 1
      /\ \A thread_id \in Threads :
           InRange(calcThreadRange(scene.W * scene.H, thread_id), pixel_index) =>
             IF pc = "init" /\ thread_id \notin workers
             THEN At(multiscale_parameters[1].sample_value_table_, pixel_index) = ZeroArray(kDimension)
             ELSE /\ \A si \in 1..kDimension :
                       At(multiscale_parameters[1].sample_value_table_, pixel_index)[si] =
                         RDiv[sampleTable(scene, pixel_index)[si], R(scene.cycle)]
                  /\ \A si_a \in 1..kDimension : \A si_b \in 1..kDimension :
                       toMatrix[At(multiscale_parameters[1].covariance_factor_table_, pixel_index)][si_a][si_b] =
                         toMatrix[At(multiscale_parameters[1].covariance_factor_table_, pixel_index)][si_b][si_a]

\* init has run on an image whose pixels differ, one thread of it only
C13_Witness ==
  /\ pc = "init"
  /\ Cardinality(workers) = 1
  /\ scene.vals = "generic"
  /\ scene.W * scene.H > NumThreads


\* C14: init called with fewer than 2 samples a pixel stops at an
\* assertion: no thread of init runs and no table of the Parameters is
\* filled.
C14_FewSamplesRejected ==
  (pc \notin {"start", "histogram", "getChunkResolution"} /\ scene.cycle < 2) =>
    /\ pc \in {"init", "fault"}
    /\ workers = {}
    /\ multiscale_parameters[1].sample_value_table_ = Resized(scene.W * scene.H, kDimension)
    /\ multiscale_parameters[1].covariance_factor_table_ = Resized(scene.W * scene.H, NumFactors)


\* C15: under the documented constraints (histogram_bins_ > 0, threshold
\* >= 0, 0 <= patch_radius_ <= search_radius_, search_radius_ 0 included,
\* num_of_scales_ >= 1, at least 2 samples, width and height
\* >= 2 * patch_radius_ + 1) no step of denoise is undefined: the call
\* never stops short of aggregateFinal.
C15_DenoiseRunsToTheEnd ==
  (/\ pc \notin {"histogram", "getChunkResolution"}
   /\ self.histogram_bins_ > 0
   /\ RLeq[Zero, self.histogram_distance_threshold_]
   /\ 0 <= self.patch_radius_ /\ self.patch_radius_ <= self.search_radius_
   /\ self.num_of_scales_ >= 1
   /\ scene.cycle >= 2
   /\ scene.W >= 2 * self.patch_radius_ + 1 /\ scene.H >= 2 * self.patch_radius_ + 1) =>
    pc # "fault"


\* C16: a step of the tile steps, of aggregate or of aggregateFinal
\* leaves the sample values, the histograms and the covariance factors of
\* every scale as they are, and what the SampleStatistics hold except
\* the denoised sample table.
C16_PassWritesNoInputTable ==
  [][(pc \in {"tiles", "aggregate", "aggregateFinal"}) =>
       /\ scene' = scene
       /\ Len(multiscale_parameters') = Len(multiscale_parameters)
       /\ \A s \in 1..Len(multiscale_parameters) :
            /\ multiscale_parameters'[s].sample_value_table_ = multiscale_parameters[s].sample_value_table_
            /\ multiscale_parameters'[s].histogram_table_ = multiscale_parameters[s].histogram_table_
            /\ multiscale_parameters'[s].covariance_factor_table_ = multiscale_parameters[s].covariance_factor_table_
            /\ multiscale_parameters'[s].resolution_ = multiscale_parameters[s].resolution_
            /\ multiscale_parameters'[s].num_of_samples_ = multiscale_parameters[s].num_of_samples_
            /\ multiscale_parameters'[s].histogram_bins_ = multiscale_parameters[s].histogram_bins_
    ]_vars

\* the pass has run both estimators, aggregate has scaled the sums by
\* counts above 1 and aggregateFinal has written the denoised sample table
C16_Witness ==
  /\ pc = "done"
  /\ scene.vals = "generic"
  /\ \E index \in Indexes(estimates_counter) : At(estimates_counter, index) > 1
  /\ \A index \in Indexes(statistics) : At(statistics, index) # "unwritten"

(***************************************************************************)
(* The calls of denoisePixels of a pass whose parallel loops are run by    *)
(* one thread: the jobs of a tile step one after the other, each the loop  *)
(* of denoise_chunk over the pixels of its chunk tile.                     *)
(***************************************************************************)
RECURSIVE InitLoop(_, _, _)
\* the parallel loop of init run by the threads 0 .. n - 1
InitLoop(p, sc, n) ==
  IF n = 0 THEN p
  ELSE Bind(InitLoop(p, sc, n - 1), LAMBDA prev : init_parameters(prev, sc, n - 1))

RECURSIVE DownscaleLoop(_, _, _)
\* the parallel loop of downscaleOf run by the threads 0 .. n - 1
DownscaleLoop(p, high_res_p, n) ==
  IF n = 0 THEN p
  ELSE Bind(DownscaleLoop(p, high_res_p, n - 1),
       LAMBDA prev : downscale_parameters(prev, high_res_p, n - 1))

RECURSIVE InitializedScale(_, _, _)
\* multiscale_parameters[k] after init and the calls of downscaleOf
InitializedScale(sc, histogram_bins, k) ==
  IF k = 0 THEN InitLoop(initResize(sc, histogram_bins), sc, NumThreads)
  ELSE Bind(InitializedScale(sc, histogram_bins, k - 1),
       LAMBDA high_res_p :
         DownscaleLoop(downscaleResize(high_res_p), high_res_p, NumThreads))

\* the calls of denoise that reach the tile steps, but for the largest
\* image; an image whose patches of radius 1 have more similar patches
\* than dimensions; and an image of as many pixels as a marker word has bits
PixelCases ==
  {case \in Cases \ {Case(15, 7, 1, 3, 1, Zero, {}, "flat", 0, {})} :
     0 < getChunkSize(case.self.search_radius_)}
    \cup {Case(9, 6, 1, 3, 1, Zero, {}, "flat", 0, {}),
          Case(8, 8, 0, 1, 1, Zero, {}, "flat", 0, {})}

InitPixels ==
  /\ \E case \in PixelCases : self = case.self /\ scene = case.scene
  /\ multiscale_parameters =
       Tuple(LAMBDA k : InitializedScale(scene, self.histogram_bins_, k - 1),
             1, self.num_of_scales_)
  /\ staging_value_table = Resized(scene.W * scene.H, kDimension)
  /\ estimates_counter = Table(LAMBDA i : 0, scene.W * scene.H)
  /\ pixel_marker = clear(PixelMarker(imageResolution(scene), scene.garbage))
  /\ tile_number = 0
  /\ chunk_loop = [chunk_number |-> 0, p |-> 0]
  /\ pc = "denoisePixels"
  /\ call = <<>>
  /\ returned = <<>>
  /\ statistics = <<>>
  /\ workers = {}
  /\ scale = 0
  /\ job = <<>>
  /\ touched = <<>>
  /\ histogram_lhs = <<>>
  /\ histogram_rhs = <<>>
  /\ distance = <<>>
  /\ num_of_non_both0 = <<>>

\* the loop of denoise_chunk is at a pixel of its chunk tile
InChunkLoop ==
  /\ pc = "denoisePixels"
  /\ chunk_loop.chunk_number \in Chunks
  /\ chunk_loop.p < numOfPixels(ChunkTile(chunk_loop.chunk_number))

current_pixel == TilePixel(ChunkTile(chunk_loop.chunk_number), chunk_loop.p)

\* what the memory of the marker holds after a call: mark(index) of an
\* index past marker_table_ writes behind the table, and the bits written
\* there are kept or are not
MarkOutcomes(before, after) ==
  {after, [after EXCEPT !.beyond = before.beyond]}

\* an iteration of the loop of denoise_chunk at a pixel not marked: the
\* call of denoisePixels; call keeps its arguments and the mask it
\* selects, returned the buffers as the call wrote them
DenoisePixelsCall ==
  /\ InChunkLoop
  /\ ~isMarked(pixel_marker, PixelIndex(parameters.resolution_, current_pixel))
  /\ \E st \in {denoisePixels(self.patch_radius_, self.search_radius_, self.histogram_distance_threshold_, current_pixel, parameters, Buffers)} :
       /\ call' = [main_pixel |-> current_pixel,
                   similar_mask |-> selectSimilarPatches(self.patch_radius_,
                                      self.search_radius_,
                                      self.histogram_distance_threshold_,
                                      parameters, current_pixel),
                   st |-> Buffers]
       /\ returned' = <<st>>
       /\ multiscale_parameters' =
            [multiscale_parameters EXCEPT
               ![ParametersScale].denoised_value_table_ = st.denoised_value_table_]
       /\ staging_value_table' = st.staging_value_table
       /\ estimates_counter' = st.estimates_counter
       /\ pixel_marker' \in MarkOutcomes(pixel_marker, st.pixel_marker)
  /\ chunk_loop' = [chunk_loop EXCEPT !.p = @ + 1]
  /\ UNCHANGED histogram_vars
  /\ UNCHANGED <<self, scene, statistics, pc, workers, scale, tile_number, job, touched>>

\* isMarked reads past the end of marker_table_: the read may fault
PixelMarkerFault ==
  /\ InChunkLoop
  /\ PastMarkerTable(pixel_marker, PixelIndex(parameters.resolution_, current_pixel))
  /\ pc' = "fault"
  /\ UNCHANGED histogram_vars
  /\ UNCHANGED call_vars
  /\ UNCHANGED <<self, scene, statistics, workers, scale, multiscale_parameters, staging_value_table, estimates_counter, pixel_marker, tile_number, job, touched>>

\* an iteration of the loop of denoise_chunk at a marked pixel
SkipMarkedPixel ==
  /\ InChunkLoop
  /\ isMarked(pixel_marker, PixelIndex(parameters.resolution_, current_pixel))
  /\ chunk_loop' = [chunk_loop EXCEPT !.p = @ + 1]
  /\ UNCHANGED histogram_vars
  /\ call' = <<>>
  /\ returned' = <<>>
  /\ UNCHANGED <<self, scene, statistics, pc, workers, scale, multiscale_parameters, staging_value_table, estimates_counter, pixel_marker, tile_number, job, touched>>

\* the loop of denoise_chunk has ended: the job of the next chunk, the
\* next tile step, or the end of the tile steps
ChunkLoopEnd ==
  /\ pc = "denoisePixels"
  /\ ~InChunkLoop
  /\ IF chunk_loop.chunk_number + 1 \in Chunks
     THEN /\ chunk_loop' = [chunk_number |-> chunk_loop.chunk_number + 1, p |-> 0]
          /\ UNCHANGED <<pc, tile_number>>
     ELSE IF tile_number + 1 < Len(getChunkTileOrder)
     THEN /\ chunk_loop' = [chunk_number |-> 0, p |-> 0]
          /\ tile_number' = tile_number + 1
          /\ UNCHANGED pc
     ELSE /\ pc' = "aggregate"
          /\ UNCHANGED <<chunk_loop, tile_number>>
  /\ UNCHANGED histogram_vars
  /\ call' = <<>>
  /\ returned' = <<>>
  /\ UNCHANGED <<self, scene, statistics, workers, scale, multiscale_parameters, staging_value_table, estimates_counter, pixel_marker, job, touched>>

NextPixels == DenoisePixelsCall \/ PixelMarkerFault \/ SkipMarkedPixel \/ ChunkLoopEnd

SpecPixels == InitPixels /\ [][NextPixels]_vars

\* the last step was a call of denoisePixels: what it was made on, and
\* what it left
Called == pc \in {"denoisePixels", "aggregate", "fault"} /\ returned # <<>>

\* C17: a call of denoisePixels does what denoiseOnlyMainPatch does exactly
\* when the mask of the similar patches has at most
\* kDimension * (2 * patch_radius_ + 1)^2 bits set, and what
\* denoiseSelectedPatches does exactly when it has more.
C17_FallbackUpToPatchDimension ==
  Called =>
    LET count == Cardinality(call.similar_mask)
        dimension == kDimension * ((2 * self.patch_radius_ + 1) * (2 * self.patch_radius_ + 1))
    IN  /\ (count <= dimension) <=>
             returned[1] = denoiseOnlyMainPatch(self.patch_radius_, self.search_radius_, call.main_pixel, call.similar_mask, parameters, call.st)
        /\ (count > dimension) <=>
             returned[1] = denoiseSelectedPatches(self.patch_radius_, self.search_radius_, call.main_pixel, call.similar_mask, parameters, call.st)

\* a call with a mask of exactly kDimension * (2 * patch_radius_ + 1)^2 bits
C17_Witness ==
  /\ Called
  /\ Cardinality(call.similar_mask) = getPatchDimension(self.patch_radius_)
  /\ \E index \in Indexes(estimates_counter) :
       At(returned[1].estimates_counter, index) > At(call.st.estimates_counter, index)

\* the buffers denoiseOnlyMainPatch leaves when called as the call was
OnlyMainPatchOfCall ==
  denoiseOnlyMainPatch(self.patch_radius_, self.search_radius_, call.main_pixel, call.similar_mask, parameters, call.st)

\* the buffers denoiseSelectedPatches leaves when called as the call was
SelectedPatchesOfCall ==
  denoiseSelectedPatches(self.patch_radius_, self.search_radius_, call.main_pixel, call.similar_mask, parameters, call.st)

\* C18: the mask of a call of denoisePixels has at least one bit set, the
\* divisor similar_mask.count() of calcEmpiricalMean and of
\* denoiseOnlyMainPatch; and where the call ran denoiseSelectedPatches, and
\* with it calcEmpiricalCovarianceMatrix, the mask has at least two bits
\* set, so that the divisor similar_mask.count() - 1 is not zero.
C18_MaskCountsAreDivisors ==
  Called =>
    /\ Cardinality(call.similar_mask) >= 1
    /\ returned[1] # OnlyMainPatchOfCall =>
         /\ Cardinality(call.similar_mask) >= 2
         /\ Cardinality(call.similar_mask) - 1 # 0

\* a call that ran denoiseSelectedPatches on the smallest mask it is run on
C18_Witness ==
  /\ Called
  /\ returned[1] = SelectedPatchesOfCall
  /\ returned[1] # OnlyMainPatchOfCall
  /\ Cardinality(call.similar_mask) = getPatchDimension(self.patch_radius_) + 1

\* the similar neighbors of the call: the pixels of the search window of the
\* main pixel whose bit of the mask is set
SimilarNeighbors ==
  LET search_window == makeSearchWindow(self.patch_radius_, self.search_radius_, parameters.resolution_, call.main_pixel)
  IN  {n \in TilePixels(search_window) : getIndex(search_window, n) \in call.similar_mask}

\* the pixel n + o - patch_radius_ as an index of the tables
TargetIndex(n, o) ==
  PixelIndex(parameters.resolution_, OffsetPixel(self.patch_radius_, n, o))

RECURSIVE SelectedPatchTrace(_)
\* the buffers before and after each of the first n iterations of the loop
\* over patch_number of denoiseSelectedPatches called as the call was
SelectedPatchTrace(n) ==
  IF n = 0 THEN <<call.st>>
  ELSE Bind(SelectedPatchTrace(n - 1),
       LAMBDA trace :
         Append(trace, SelectedPatchStep(self.patch_radius_, self.search_radius_, call.main_pixel, call.similar_mask, parameters, trace[Len(trace)], n - 1)))

\* the sum over the iterations patch_number that have index as a target of
\* the staged value of index when the iteration accumulates
StagedValues(trace, index) ==
  ArrSumRange(LAMBDA k :
                IF \E n \in SimilarNeighbors :
                     TargetIndex(n, PatchOffset(self.patch_radius_, k - 1)) = index
                THEN At(trace[k + 1].staging_value_table, index)
                ELSE ZeroArray(kDimension),
              1, getNumOfPatchPixels(self.patch_radius_), kDimension)

\* the counter of every pixel q grew by the number of the pairs (n, o) with
\* n + o - patch_radius_ = q, and its denoised value by a staged value a pair
SelectedPatchesCountEveryPair ==
  \E trace \in {SelectedPatchTrace(getNumOfPatchPixels(self.patch_radius_))} :
    /\ \A q \in Indexes(estimates_counter) :
        At(returned[1].estimates_counter, q) - At(call.st.estimates_counter, q) =
           Cardinality({pair \in SimilarNeighbors \X {PatchOffset(self.patch_radius_, k) : k \in 0..(getNumOfPatchPixels(self.patch_radius_) - 1)} :
                          TargetIndex(pair[1], pair[2]) = q})
    /\ \A q \in Indexes(parameters.denoised_value_table_) :
        At(returned[1].denoised_value_table_, q) =
          ArrAdd[At(call.st.denoised_value_table_, q), StagedValues(trace, q)]

\* the marker after the call is set for the pixels it was set for and for
\* the similar neighbors
SelectedPatchesMarkSimilarNeighbors ==
  \A q \in Indexes(estimates_counter) :
    isMarked(pixel_marker, q) <=>
      \/ isMarked(call.st.pixel_marker, q)
      \/ q \in {PixelIndex(parameters.resolution_, n) : n \in SimilarNeighbors}

\* the state after a call of denoisePixels that ran denoiseSelectedPatches
SelectedPatchesCalled ==
  /\ Called
  /\ returned[1] # OnlyMainPatchOfCall

\* C19: a call of denoiseSelectedPatches increments the estimates counter of
\* pixel q by the number of pairs (similar neighbor n, patch offset o) with
\* n + o - patch_radius_ = q, adds one staged value an increment, and sets
\* the pixel marker for the similar neighbors and for no other pixel.
C19_SelectedPatchesCountAndMark ==
  SelectedPatchesCalled =>
    /\ SelectedPatchesCountEveryPair
    /\ SelectedPatchesMarkSimilarNeighbors

\* the patch offsets o for which main_pixel + o - patch_radius_ is the
\* pixel of index q
OffsetsOnto(q) ==
  {o \in {PatchOffset(self.patch_radius_, k) : k \in 0..(getNumOfPatchPixels(self.patch_radius_) - 1)} :
     TargetIndex(call.main_pixel, o) = q}

\* the sum of the sample values of the similar neighbors at patch offset o,
\* times the inverse of their number
AverageOfSimilarSamples(o) ==
  LET search_window == makeSearchWindow(self.patch_radius_, self.search_radius_, parameters.resolution_, call.main_pixel)
  IN  ArrScale[RInv[R(Cardinality(call.similar_mask))],
        ArrSumRange(LAMBDA p :
                      IF TilePixel(search_window, p) \in SimilarNeighbors
                      THEN At(parameters.sample_value_table_, TargetIndex(TilePixel(search_window, p), o))
                      ELSE ZeroArray(kDimension),
                    0, numOfPixels(search_window) - 1, kDimension)]

\* the state after a call of denoisePixels that ran denoiseOnlyMainPatch
OnlyMainPatchCalled ==
  /\ Called
  /\ Cardinality(call.similar_mask) <= getPatchDimension(self.patch_radius_)

\* C20: a call of denoiseOnlyMainPatch for main pixel m increments the
\* estimates counter of each pixel of the patch centred on m by one and adds
\* to its denoised value the average of the sample values of the similar
\* neighbors at the same patch offset; it changes the counter and the
\* denoised value of no other pixel, and no bit of the pixel marker.
C20_OnlyMainPatchAveragesThePatch ==
  OnlyMainPatchCalled =>
    /\ \A q \in Indexes(estimates_counter) :
         At(returned[1].estimates_counter, q) =
           At(call.st.estimates_counter, q) + (IF OffsetsOnto(q) # {} THEN 1 ELSE 0)
    /\ \A q \in Indexes(parameters.denoised_value_table_) :
         At(returned[1].denoised_value_table_, q) =
           IF OffsetsOnto(q) # {}
           THEN ArrAdd[At(call.st.denoised_value_table_, q),
                       AverageOfSimilarSamples(CHOOSE o \in OffsetsOnto(q) : TRUE)]
           ELSE At(call.st.denoised_value_table_, q)
    /\ \A q \in Indexes(estimates_counter) : Cardinality(OffsetsOnto(q)) <= 1
    /\ returned[1].pixel_marker = call.st.pixel_marker
    /\ pixel_marker = call.st.pixel_marker

\* a call of the fallback on a patch of nine pixels and several similar
\* neighbors whose sample values differ
C20_Witness ==
  /\ OnlyMainPatchCalled
  /\ self.patch_radius_ = 1
  /\ Cardinality(call.similar_mask) > 1
  /\ scene.vals = "generic"
  /\ Cardinality({q \in Indexes(estimates_counter) :
                    At(returned[1].estimates_counter, q) > At(call.st.estimates_counter, q)}) = 9

\* the indexes of the pixels of the patch centred on the pixel of an index
\* that lie in the image
PatchIndexes(index) ==
  LET resolution == parameters.resolution_
      center == <<index % resolution[1], index \div resolution[1]>>
  IN  {PixelIndex(resolution, q) :
         q \in {q \in TilePixels(makePatch(self.patch_radius_, center)) :
                  /\ 0 <= q[1] /\ q[1] < resolution[1]
                  /\ 0 <= q[2] /\ q[2] < resolution[2]}}

\* C21: in every state of the tile steps a marked pixel and every pixel of
\* the patch centred on it have an estimates counter >= 1, and no pixel is
\* marked when the first tile step starts.
C21_MarkedPixelsAreEstimated ==
  pc = "tiles" =>
    /\ \A index \in Indexes(parameters.denoised_value_table_) :
         isMarked(pixel_marker, index) =>
           \A q \in PatchIndexes(index) : At(estimates_counter, q) >= 1
    /\ (tile_number = 0 /\ \A c \in DOMAIN job : job[c] = "queued") =>
         \A index \in Indexes(estimates_counter) : ~isMarked(pixel_marker, index)

\* C22: every index the jobs of a tile step pass to isMarked, the indexes
\* of the pixels of their chunk tiles, addresses a word of marker_table_.
C22_MarkerHasABitOfEveryPixel ==
  pc = "tiles" =>
    \A chunk_number \in DOMAIN job : \A index \in TileIndexes(chunk_number) :
      ~PastMarkerTable(pixel_marker, index)

\* the average of the entries offset + (2x + dx) + w * (2y + dy), dx and dy
\* 0 or 1, of a table of the scale of resolution high_res, for the pixel of
\* the index low_index of the scale of resolution low_res
BlockAverage(high_res, table, offset, low_res, low_index, kN) ==
  LET x == low_index % low_res[1]
      y == low_index \div low_res[1]
  IN  ArrScale[Norm[1, 4],
        ArrSum(table,
               <<offset + (2 * x) + high_res[1] * (2 * y),
                 offset + (2 * x + 1) + high_res[1] * (2 * y),
                 offset + (2 * x) + high_res[1] * (2 * y + 1),
                 offset + (2 * x + 1) + high_res[1] * (2 * y + 1)>>, kN)]

\* C23: the scale downscaleOf builds has the resolution floor(W / 2) x
\* floor(H / 2), the histogram bins and the number of samples of the scale
\* it is built from, and every entry of its sample values, covariance
\* factors and histogram bin b is the average of the 2x2 block of the same
\* table, of the same bin b, of that scale.
C23_DownscaleAveragesBlocks ==
  (pc \in {"clear", "tiles", "aggregate", "aggregateFinal", "done"}) =>
    \A s \in 2..self.num_of_scales_ :
      \E high \in {multiscale_parameters[s - 1]} : \E low \in {multiscale_parameters[s]} :
      \E hn \in {high.resolution_[1] * high.resolution_[2]} :
      \E ln \in {low.resolution_[1] * low.resolution_[2]} :
        /\ low.resolution_ = <<high.resolution_[1] \div 2, high.resolution_[2] \div 2>>
        /\ low.histogram_bins_ = high.histogram_bins_
        /\ low.num_of_samples_ = high.num_of_samples_
        /\ \A i \in 0..(ln - 1) :
             /\ At(low.sample_value_table_, i) =
                  BlockAverage(high.resolution_, high.sample_value_table_, 0, low.resolution_, i, kDimension)
             /\ At(low.covariance_factor_table_, i) =
                  BlockAverage(high.resolution_, high.covariance_factor_table_, 0, low.resolution_, i, NumFactors)
             /\ \A b \in 0..(high.histogram_bins_ - 1) :
                  At(low.histogram_table_, b * ln + i) =
                    BlockAverage(high.resolution_, high.histogram_table_, b * hn, low.resolution_, i, kDimension)

(***************************************************************************)
(* Parameters::upscaleAdd called alone, on the resolutions and the ranges  *)
(* merge calls it with: low_res = high_res >> 1, the range of a thread.    *)
(***************************************************************************)
\* the largest width and height of the high resolution table
MaxHighSide == 5

isOdd(n) == n % 2 = 1

\* low_p1 of the pixel of the index high_index
low_p1(high_res, high_index) ==
  <<(high_index % high_res[1]) \div 2, (high_index \div high_res[1]) \div 2>>

\* low_p2 after the loop over the two axes
low_p2(low_res, high_res, high_index) ==
  LET high_pixel == <<high_index % high_res[1], high_index \div high_res[1]>>
      p1 == low_p1(high_res, high_index)
  IN  Tuple(LAMBDA i :
              Min(IF isOdd(high_pixel[i]) THEN p1[i] + 1
                  ELSE IF 0 < p1[i] THEN p1[i] - 1 ELSE 0,
                  low_res[i] - 1),
            1, 2)

\* the pixels of low_res_table read for high_index, in the order of the
\* weights 9/16, 3/16, 3/16, 1/16
UpscaleReads(low_res, high_res, high_index) ==
  LET p1 == low_p1(high_res, high_index)
      p2 == low_p2(low_res, high_res, high_index)
  IN  <<p1, <<p1[1], p2[2]>>, <<p2[1], p1[2]>>, p2>>

\* main_weight, adjacent_weight, adjacent_weight, diagonal_weight
UpscaleWeights == <<Norm[9, 16], Norm[3, 16], Norm[3, 16], Norm[1, 16]>>

\* the indexes of the range whose reads go past the end of low_res_table
ReadsPastLowTable(low_res, high_res, range) ==
  {high_index \in range[1]..(range[2] - 1) :
     \E k \in 1..4 :
       PixelIndex(low_res, UpscaleReads(low_res, high_res, high_index)[k])
         >= low_res[1] * low_res[2]}

\* high_res_table after upscaleAdd; beyond is what a read past the end of
\* low_res_table returns
upscaleAdd(low_res, low_res_table, high_res, high_res_table, range, beyond) ==
  LET read(pixel) ==
        IF PixelIndex(low_res, pixel) < Len(low_res_table)
        THEN At(low_res_table, PixelIndex(low_res, pixel))
        ELSE beyond
      interp(high_index) ==
        ArrSumRange(LAMBDA k : ArrScale[UpscaleWeights[k],
                                 read(UpscaleReads(low_res, high_res, high_index)[k])],
                    1, 4, kDimension)
  IN  Table(LAMBDA high_index :
              IF InRange(range, high_index)
              THEN ArrAdd[At(high_res_table, high_index), interp(high_index)]
              ELSE At(high_res_table, high_index),
            Len(high_res_table))

\* the tables upscaleAdd is called on: entries that differ, or all one
UpscaleTable(n, vals) ==
  Table(LAMBDA i : IF vals = "flat" THEN <<R(1), R(1), R(1)>>
                   ELSE <<R(i), R(i + 1), R(2 * i)>>, n)

InitUpscale ==
  /\ call \in {[low_res |-> <<W \div 2, H \div 2>>,
                low_res_table |-> UpscaleTable((W \div 2) * (H \div 2), vals),
                high_res |-> <<W, H>>,
                high_res_table |-> Resized(W * H, kDimension),
                range |-> calcThreadRange(W * H, thread_id)] :
                 W \in 2..MaxHighSide, H \in 2..MaxHighSide,
                 vals \in {"flat", "generic"}, thread_id \in Threads}
  /\ returned = <<>>
  /\ chunk_loop = <<>>
  /\ pc = "upscaleAdd"
  /\ NoDenoise

\* the call; a read past the end of low_res_table returns what the memory
\* there holds
CallUpscaleAdd ==
  /\ pc = "upscaleAdd"
  /\ returned = <<>>
  /\ \E beyond \in {ZeroArray(kDimension), <<R(16), R(16), R(16)>>} :
       returned' = <<upscaleAdd(call.low_res, call.low_res_table, call.high_res, call.high_res_table, call.range, beyond)>>
  /\ UNCHANGED <<call, chunk_loop, histogram_vars>>
  /\ UNCHANGED <<self, scene, statistics, pc, workers, scale, multiscale_parameters, staging_value_table, estimates_counter, pixel_marker, tile_number, job, touched>>

\* a read past the end of low_res_table may fault
UpscaleAddFault ==
  /\ pc = "upscaleAdd"
  /\ returned = <<>>
  /\ ReadsPastLowTable(call.low_res, call.high_res, call.range) # {}
  /\ pc' = "fault"
  /\ UNCHANGED histogram_vars
  /\ UNCHANGED call_vars
  /\ UNCHANGED <<self, scene, statistics, workers, scale, multiscale_parameters, staging_value_table, estimates_counter, pixel_marker, tile_number, job, touched>>

NextUpscale == CallUpscaleAdd \/ UpscaleAddFault

SpecUpscale == InitUpscale /\ [][NextUpscale]_vars

\* C24: for every high resolution whose low resolution floor(high / 2) is
\* >= 1 on both axes and every index of the range, the four pixels
\* upscaleAdd reads lie in the low resolution table, the call does not
\* fault, and the four weights sum to 1.
C24_UpscaleReadsInsideLowTable ==
  /\ pc # "fault"
  /\ (pc = "upscaleAdd" /\ returned # <<>>) =>
       /\ \A high_index \in call.range[1]..(call.range[2] - 1) : \A k \in 1..4 :
            \E pixel \in {UpscaleReads(call.low_res, call.high_res, high_index)[k]} :
              /\ 0 <= pixel[1] /\ pixel[1] < call.low_res[1]
              /\ 0 <= pixel[2] /\ pixel[2] < call.low_res[2]
              /\ PixelIndex(call.low_res, pixel) < Len(call.low_res_table)
       /\ RAdd[RAdd[UpscaleWeights[1], UpscaleWeights[2]],
               RAdd[UpscaleWeights[3], UpscaleWeights[4]]] = R(1)

(***************************************************************************)
(* calcHistogramPatchDistance called alone, on the histogram table of an   *)
(* image each channel of which has its own pixels whose samples fell in    *)
(* the second bin.                                                         *)
(***************************************************************************)
\* histogram_table_ after init: bin-major, the entry of bin b and pixel i
\* holds for channel si the number of samples of the pixel in bin b
HistogramTableOf(resolution, histogram_bins, cycle, odd) ==
  Table(LAMBDA dst_index :
          Tuple(LAMBDA si :
                  IF dst_index \div (resolution[1] * resolution[2])
                       = (IF dst_index % (resolution[1] * resolution[2]) \in odd[si]
                          THEN 1 % histogram_bins ELSE 0)
                  THEN R(cycle) ELSE Zero,
                1, kDimension),
        histogram_bins * resolution[1] * resolution[2])

\* the denoisers and the images of the calls: patch radius 0 on the
\* largest small image, patch radius 1 on an image of two main pixels
PatchDistanceCases ==
  {[patch_radius_ |-> 0, resolution_ |-> <<MaxSide, MaxSide>>],
   [patch_radius_ |-> 1, resolution_ |-> <<4, 3>>]}

InitPatchDistance ==
  /\ \E case \in PatchDistanceCases, cycle \in 1..2 :
     \E odd \in OddPixels \X OddPixels \X OddPixels :
     \E center_pixel_lhs \in TilePixels(RenderingTile(<<case.patch_radius_, case.patch_radius_>>, <<case.resolution_[1] - case.patch_radius_, case.resolution_[2] - case.patch_radius_>>)) :
     \E center_pixel_rhs \in TilePixels(makeSearchWindow(case.patch_radius_, 1, case.resolution_, center_pixel_lhs)) :
       call = [patch_radius_ |-> case.patch_radius_,
               parameters |-> [resolution_ |-> case.resolution_,
                               histogram_bins_ |-> 2,
                               histogram_table_ |-> HistogramTableOf(case.resolution_, 2, cycle, odd)],
               center_pixel_lhs |-> center_pixel_lhs,
               center_pixel_rhs |-> center_pixel_rhs]
  /\ returned = <<>>
  /\ chunk_loop = <<>>
  /\ pc = "calcHistogramPatchDistance"
  /\ NoDenoise

\* <<histogram_distance, num_of_non_both0>> when the loops have ended
PatchDistanceSumOfCall ==
  PatchDistanceSum(call.patch_radius_, call.parameters, call.center_pixel_lhs, call.center_pixel_rhs)

\* the call returns the quotient
CallCalcHistogramPatchDistance ==
  /\ pc = "calcHistogramPatchDistance"
  /\ returned = <<>>
  /\ 0 < PatchDistanceSumOfCall[2]
  /\ returned' = <<calcHistogramPatchDistance(call.patch_radius_, call.parameters, call.center_pixel_lhs, call.center_pixel_rhs)>>
  /\ UNCHANGED <<call, chunk_loop, histogram_vars>>
  /\ UNCHANGED <<self, scene, statistics, pc, workers, scale, multiscale_parameters, staging_value_table, estimates_counter, pixel_marker, tile_number, job, touched>>

\* ZISC_ASSERT(0 < num_of_non_both0) fails
PatchDistanceAssert ==
  /\ pc = "calcHistogramPatchDistance"
  /\ returned = <<>>
  /\ ~(0 < PatchDistanceSumOfCall[2])
  /\ pc' = "fault"
  /\ UNCHANGED histogram_vars
  /\ UNCHANGED call_vars
  /\ UNCHANGED <<self, scene, statistics, workers, scale, multiscale_parameters, staging_value_table, estimates_counter, pixel_marker, tile_number, job, touched>>

NextPatchDistance == CallCalcHistogramPatchDistance \/ PatchDistanceAssert

SpecPatchDistance == InitPatchDistance /\ [][NextPatchDistance]_vars

\* the term of the triple number k = (bin * n + patch pixel) * kDimension +
\* channel of the call, n the pixels of a patch: <<(a - b)^2 / (a + b), 1>>
\* where the two entries a and b have a + b > 1, <<0, 0>> where not
TripleTerm(k) ==
  LET n == getNumOfPatchPixels(call.patch_radius_)
      resolution == call.parameters.resolution_
      si == (k % kDimension) + 1
      p == (k \div kDimension) % n
      b == (k \div kDimension) \div n
      offset == <<p % (2 * call.patch_radius_ + 1), p \div (2 * call.patch_radius_ + 1)>>
      a_index == b * resolution[1] * resolution[2] + PixelIndex(resolution, OffsetPixel(call.patch_radius_, call.center_pixel_lhs, offset))
      b_index == b * resolution[1] * resolution[2] + PixelIndex(resolution, OffsetPixel(call.patch_radius_, call.center_pixel_rhs, offset))
      lhs == At(call.parameters.histogram_table_, a_index)[si]
      rhs == At(call.parameters.histogram_table_, b_index)[si]
  IN  IF RLt[R(1), RAdd[lhs, rhs]]
      THEN <<RDiv[RMul[RSub[lhs, rhs], RSub[lhs, rhs]], RAdd[lhs, rhs]], 1>>
      ELSE <<Zero, 0>>

\* the sum of the terms of all triples and the number of those with a + b > 1
TripleSum ==
  DistanceSumRange(TripleTerm, 0, call.parameters.histogram_bins_ * getNumOfPatchPixels(call.patch_radius_) * kDimension - 1)

\* C25: calcHistogramPatchDistance returns the sum of (a - b)^2 / (a + b)
\* over the triples (bin, patch offset, channel) whose entries have
\* a + b > 1, divided by the number of these triples; where there is none
\* it returns nothing: the assertion fails.
C25_PatchDistanceOverValidTriples ==
  pc \in {"calcHistogramPatchDistance", "fault"} =>
    /\ returned # <<>> =>
         /\ TripleSum[2] > 0
         /\ returned[1] = RDiv[TripleSum[1], R(TripleSum[2])]
    /\ pc = "fault" => (TripleSum[2] = 0 /\ returned = <<>>)
    /\ TripleSum[2] = 0 => returned = <<>>

\* a call that returned a distance that is not zero where some triples
\* have a + b <= 1
C25_Witness ==
  /\ pc = "calcHistogramPatchDistance"
  /\ returned # <<>>
  /\ returned[1] # Zero
  /\ TripleSum[2] < call.parameters.histogram_bins_ * getNumOfPatchPixels(call.patch_radius_) * kDimension
  /\ call.patch_radius_ = 1

\* the main pixels of the running tile step
MainPixels == UNION {TilePixels(ChunkTile(chunk_number)) : chunk_number \in DOMAIN job}

\* the search window of a main pixel lies in the image inset by the patch
\* radius, holds the main pixel and has at most 2 * search_radius_ + 1
\* pixels a side; no pixel neighbor + patch offset - patch_radius_ of it
\* leaves the image, and no difference computed is negative
WindowInsideImage(main_pixel) ==
  \E search_window \in {makeSearchWindow(self.patch_radius_, self.search_radius_, parameters.resolution_, main_pixel)} :
    /\ \A i \in 1..2 :
         /\ 0 <= parameters.resolution_[i] - self.patch_radius_
         /\ 0 <= Max(self.patch_radius_ + self.search_radius_, main_pixel[i]) - self.search_radius_
         /\ self.patch_radius_ <= search_window.begin[i]
         /\ search_window.begin[i] <= main_pixel[i]
         /\ main_pixel[i] < search_window.end[i]
         /\ search_window.end[i] <= parameters.resolution_[i] - self.patch_radius_
         /\ search_window.end[i] - search_window.begin[i] <= 2 * self.search_radius_ + 1
    /\ InTile(search_window, main_pixel)
    /\ \A neighbor_pixel \in TilePixels(search_window) :
       \A patch_number \in 0..(getNumOfPatchPixels(self.patch_radius_) - 1) :
         \E pixel \in {OffsetPixel(self.patch_radius_, neighbor_pixel, PatchOffset(self.patch_radius_, patch_number))} :
           /\ 0 <= pixel[1] /\ pixel[1] < parameters.resolution_[1]
           /\ 0 <= pixel[2] /\ pixel[2] < parameters.resolution_[2]
           /\ PixelIndex(parameters.resolution_, pixel) < Len(parameters.sample_value_table_)

\* C26: where the image processed has width and height >= 2 *
\* patch_radius_ + 1, the search window of every main pixel of a chunk tile
\* lies in the image inset by the patch radius, holds the main pixel, has
\* at most 2 * search_radius_ + 1 pixels a side, and every pixel neighbor +
\* patch offset - patch_radius_ lies in the image; the indexes the jobs
\* accessed are indexes of the tables.
C26_SearchWindowInsideImage ==
  (/\ pc = "tiles"
   /\ parameters.resolution_[1] >= 2 * self.patch_radius_ + 1
   /\ parameters.resolution_[2] >= 2 * self.patch_radius_ + 1) =>
    /\ \A main_pixel \in MainPixels : WindowInsideImage(main_pixel)
    /\ \A chunk_number \in DOMAIN touched :
         touched[chunk_number] \subseteq Indexes(parameters.denoised_value_table_)

\* a tile step with patches of radius 1 and a main pixel whose search
\* window is cut at the inset border, after a job ran
C26_Witness ==
  /\ pc = "tiles"
  /\ self.patch_radius_ = 1
  /\ \E chunk_number \in DOMAIN job :
       /\ job[chunk_number] = "finished"
       /\ touched[chunk_number] # {}
       /\ \E main_pixel \in TilePixels(ChunkTile(chunk_number)) :
            /\ main_pixel[1] < self.patch_radius_ + self.search_radius_
            /\ makeSearchWindow(self.patch_radius_, self.search_radius_, parameters.resolution_, main_pixel).begin[1] = self.patch_radius_

\* the chunk tile of a chunk at the tile position number k of the order
TileOf(chunk_number, k) ==
  makeChunkTile(self.patch_radius_, self.search_radius_, parameters.resolution_, ChunkPosition(chunk_resolution, chunk_number), getChunkTileOrder[k])

\* the image inset by the patch radius
InsetImage ==
  {pixel \in (self.patch_radius_..(parameters.resolution_[1] - self.patch_radius_ - 1))
               \X (self.patch_radius_..(parameters.resolution_[2] - self.patch_radius_ - 1)) : TRUE}

\* C27: over the chunks of getChunkResolution and the nine tile positions,
\* every pixel of the image inset by the patch radius lies in the chunk
\* tile of exactly one pair of a chunk and a tile position, and no chunk
\* tile holds a pixel outside the inset image.
C27_ChunkTilesPartitionInsetImage ==
  pc = "tiles" =>
    /\ \A pixel \in InsetImage :
         Cardinality({pair \in Chunks \X (1..Len(getChunkTileOrder)) :
                        InTile(TileOf(pair[1], pair[2]), pixel)}) = 1
    /\ \A chunk_number \in Chunks : \A k \in 1..Len(getChunkTileOrder) :
         TilePixels(TileOf(chunk_number, k)) \subseteq InsetImage

\* a tile step after the first of an image of several chunks and patches
\* of radius 1, the tiles of the last chunk cut at the inset border
C27_Witness ==
  /\ pc = "tiles"
  /\ tile_number >= 1
  /\ self.patch_radius_ = 1
  /\ Cardinality(Chunks) >= 2
  /\ \E chunk_number \in Chunks : \E k \in 1..Len(getChunkTileOrder) :
       /\ TilePixels(TileOf(chunk_number, k)) # {}
       /\ Cardinality(TilePixels(TileOf(chunk_number, k))) < self.search_radius_ * self.search_radius_

=============================================================================
